---- MODULE Spec2Model ----
(***************************************************************************)
(* A model of opencitations_client: the identifier translator and the edge *)
(* extractor of download.py, the memoized accessors of client.py and the   *)
(* per-vocabulary graph caches of cache.py and db.py.                      *)
(*                                                                         *)
(* A Python str is a sequence of one-character strings.  A file is a       *)
(* record [exists, rows]; a row is a tuple of str fields.  A dict is a     *)
(* function whose DOMAIN is its key set.                                   *)
(***************************************************************************)
EXTENDS Integers, Sequences, FiniteSets, TLC

VARIABLES
    rawMeta,    \* the raw metadata archive: the `id` column of each record
    rawCit,     \* the raw citation archives: the first column of each row
    mapFile,    \* omid_to_{prefix}.tsv.gz, per external prefix
    edgeFile,   \* {prefix}_citations.tsv.gz, per vocabulary
    indexDisk,  \* the graph-index directory database-{prefix}, per vocabulary
    accMemo,    \* lru_cache(1) of each memoized accessor of download.py/client.py
    cacheMemo,  \* lru_cache(1) of cache.py's _get_*_cache, per vocabulary
    dbMemo,     \* lru_cache(1) of db.py's _get_*_cache, per vocabulary
    runs,       \* how often each _get_*_cache body ran in this process
    gen,        \* the generator object of an edge stream that a caller holds
    threads,    \* the threads of the process inside a memoized _get_*_cache
    frames,     \* the interpreter's call stack under an evaluation of Work.omid
    last        \* what the most recent call did and returned

vars ==
    <<rawMeta, rawCit, mapFile, edgeFile, indexDisk, accMemo, cacheMemo, dbMemo, runs,
      gen, threads, frames, last>>

---------------------------------------------------------------------------
(* Bounds of the model *)

\* longest raw metadata archive, in records
MaxBundles == 2
\* longest raw metadata archive read through the memoized accessors, in records
MaxAccessorBundles == 1
\* longest raw citation archive, in rows
MaxRows == 2
\* longest raw citation archive behind the graph caches of cache.py, in rows
MaxCacheRows == 1
\* longest raw citation archive behind the graph caches of cache.py and db.py, in rows
MaxDbRows == 1

\* most tokens in the `id` column of one metadata record
MaxTokens == 3

\* longest raw citation archive of rows of every shape, in rows
MaxShapedRows == 2

\* longest raw metadata archive after new releases of it, in records
MaxArchive == 2
\* longest raw citation archive next to a metadata archive that grows, in rows
MaxRebuildRows == 2

\* longest raw citation archive behind a build that may fail, in rows
MaxFailRows == 2

\* longest raw metadata archive behind the lookups, in records
MaxLookupBundles == 2

\* most references of one Work
MaxReferences == 2
\* sys.getrecursionlimit(), in evaluations of Work.omid nested in one another
RecursionLimit == 3

BoundedSeq(S, n) == UNION {[1..k -> S] : k \in 0..n}

---------------------------------------------------------------------------
(* Python values *)

None == <<"<None>">>
EmptyDict == <<>>
NoFileAt == [exists |-> FALSE, rows |-> <<>>]
FileOf(rows) == [exists |-> TRUE, rows |-> rows]

\* bool(x) of a str-or-None
Truthy(x) == x # None /\ x # <<>>

RECURSIVE lstrip(_, _)
lstrip(s, chars) ==
    IF s # <<>> /\ Head(s) \in chars THEN lstrip(Tail(s), chars) ELSE s

\* the first index of character c in s, 0 when absent
RECURSIVE FindFrom(_, _, _)
FindFrom(s, c, i) ==
    IF i > Len(s) THEN 0 ELSE IF s[i] = c THEN i ELSE FindFrom(s, c, i + 1)

Find(s, c) == FindFrom(s, c, 1)

\* str.partition(c): <<before, separator, after>>
partition(s, c) ==
    LET i == Find(s, c)
    IN  IF i = 0 THEN <<s, <<>>, <<>>>>
        ELSE <<SubSeq(s, 1, i - 1), <<c>>, SubSeq(s, i + 1, Len(s))>>

\* str.split(): split on runs of whitespace
RECURSIVE split(_)
split(s) ==
    LET t == lstrip(s, {" "})
        i == Find(t, " ")
    IN  IF t = <<>> THEN <<>>
        ELSE IF i = 0 THEN <<t>>
        ELSE <<SubSeq(t, 1, i - 1)>> \o split(SubSeq(t, i + 1, Len(t)))

\* d.setdefault(k, v): the first value written under a key stays
DictSetDefault(d, k, v) == [x \in (DOMAIN d) \cup {k} |-> IF x \in DOMAIN d THEN d[x] ELSE v]

\* d[k] = v
DictSet(d, k, v) == [x \in (DOMAIN d) \cup {k} |-> IF x = k THEN v ELSE d[x]]
DictGet(d, k) == IF k \in DOMAIN d THEN d[k] ELSE None

\* the keys of dict(rows) in iteration order: a key keeps the place of its
\* first insertion
RECURSIVE KeyOrder(_)
KeyOrder(rows) ==
    IF rows = <<>> THEN <<>>
    ELSE LET n == Len(rows)
         IN  IF \E i \in 1..(n - 1) : rows[i][1] = rows[n][1]
             THEN KeyOrder(SubSeq(rows, 1, n - 1))
             ELSE Append(KeyOrder(SubSeq(rows, 1, n - 1)), rows[n][1])

\* dict(rows) of two-column rows: a later row overwrites an earlier one
RECURSIVE DictOfRows(_)
DictOfRows(rows) ==
    IF rows = <<>> THEN EmptyDict
    ELSE LET n == Len(rows)
         IN  DictSet(DictOfRows(SubSeq(rows, 1, n - 1)), rows[n][1], rows[n][2])

---------------------------------------------------------------------------
(* Vocabularies *)

ExternalPrefixes == {"pmid", "doi"}
Vocabularies == {"pmid", "omid", "doi"}

StrOf ==
    [pmid |-> <<"p", "m", "i", "d">>,
     doi |-> <<"d", "o", "i">>,
     omid |-> <<"o", "m", "i", "d">>,
     pubmed |-> <<"p", "u", "b", "m", "e", "d">>,
     isbn |-> <<"i", "s", "b", "n">>]

BR == <<"b", "r", "/">>

---------------------------------------------------------------------------
(* download.py: the identifier translator *)

\* the inner loop without its `continue`: a token without a local value stores
\* the empty identifier under its prefix
RECURSIVE bundle_references_storing_empty(_)
bundle_references_storing_empty(tokens) ==
    IF tokens = <<>> THEN EmptyDict
    ELSE LET n == Len(tokens)
         IN  DictSet(bundle_references_storing_empty(SubSeq(tokens, 1, n - 1)),
                     partition(tokens[n], ":")[1], partition(tokens[n], ":")[3])

\* the inner loop over curies.split(): the references dict of one bundle
RECURSIVE bundle_references(_)
bundle_references(tokens) ==
    IF tokens = <<>> THEN EmptyDict
    ELSE LET n == Len(tokens)
             before == bundle_references(SubSeq(tokens, 1, n - 1))
             parts == partition(tokens[n], ":")
         IN  IF parts[3] = <<>> THEN before
             ELSE DictSet(before, parts[1], parts[3])

\* one bundle read with references.get("omid"): a bundle without a native
\* identifier is not skipped and yields under the key None
bundle_pairs_keyless(prefix, curies) ==
    LET references == bundle_references(split(curies))
    IN  IF Truthy(DictGet(references, StrOf[prefix]))
        THEN << <<DictGet(references, StrOf.omid), references[StrOf[prefix]]>> >>
        ELSE <<>>

\* what one bundle yields: <<>> or one (omid, external) pair
bundle_pairs(prefix, curies) ==
    LET references == bundle_references(split(curies))
    IN  IF StrOf.omid \notin DOMAIN references THEN <<>>
        ELSE IF Truthy(DictGet(references, StrOf[prefix]))
             THEN << <<references[StrOf.omid], references[StrOf[prefix]]>> >>
             ELSE <<>>

\* the sequence of pairs yielded over the whole metadata archive
RECURSIVE iter_omid_to_external_identifier(_, _)
iter_omid_to_external_identifier(prefix, meta) ==
    IF meta = <<>> THEN <<>>
    ELSE bundle_pairs(prefix, Head(meta))
            \o iter_omid_to_external_identifier(prefix, Tail(meta))

MapHeader(prefix) == <<StrOf.omid, StrOf[prefix]>>

\* reading the persisted map back without the header row
ReadMapKeepingHeader(file) ==
    [ok |-> TRUE, rv |-> DictOfRows(file.rows)]

\* reading the persisted map back: skip the header row, dict() the rest
ReadMap(file) ==
    IF file.rows = <<>> THEN [ok |-> FALSE, rv |-> EmptyDict]
    ELSE IF \E i \in 2..Len(file.rows) : Len(file.rows[i]) # 2
         THEN [ok |-> FALSE, rv |-> EmptyDict]
         ELSE [ok |-> TRUE, rv |-> DictOfRows(Tail(file.rows))]

\* the pairs whose native identifier no earlier pair carries
RECURSIVE FirstPerKey(_)
FirstPerKey(pairs) ==
    IF pairs = <<>> THEN <<>>
    ELSE LET n == Len(pairs)
             before == SubSeq(pairs, 1, n - 1)
         IN  IF \E i \in 1..(n - 1) : pairs[i][1] = pairs[n][1]
             THEN FirstPerKey(before)
             ELSE FirstPerKey(before) \o <<pairs[n]>>

\* a scan that writes a row only for a native identifier it has not met
get_omid_to_external_first_rows(prefix, force, file, meta) ==
    IF file.exists /\ ~force
    THEN LET r == ReadMap(file)
         IN  [ok |-> r.ok, rv |-> r.rv, file |-> file, scanned |-> FALSE,
              order |-> IF r.ok THEN KeyOrder(Tail(file.rows)) ELSE <<>>]
    ELSE LET pairs == iter_omid_to_external_identifier(prefix, meta)
         IN  [ok |-> TRUE,
              rv |-> DictOfRows(pairs),
              file |-> FileOf(<<MapHeader(prefix)>> \o FirstPerKey(pairs)),
              scanned |-> TRUE, order |-> KeyOrder(pairs)]

\* _get_omid_to_external(prefix, force_process=force) on the given map file:
\* the returned dict, the file afterwards, and whether the archive was scanned
get_omid_to_external(prefix, force, file, meta) ==
    IF file.exists /\ ~force
    THEN LET r == ReadMap(file)
         IN  [ok |-> r.ok, rv |-> r.rv, file |-> file, scanned |-> FALSE,
              order |-> IF r.ok THEN KeyOrder(Tail(file.rows)) ELSE <<>>]
    ELSE LET pairs == iter_omid_to_external_identifier(prefix, meta)
         IN  [ok |-> TRUE,
              rv |-> DictOfRows(pairs),
              file |-> FileOf(<<MapHeader(prefix)>> \o pairs),
              scanned |-> TRUE, order |-> KeyOrder(pairs)]

---------------------------------------------------------------------------
(* download.py: the edge extractor *)

\* citation.lstrip("oci:").partition("-"): the (left, right) local identifiers
parse_citation(citation) ==
    LET parts == partition(lstrip(citation, {"o", "c", "i", ":"}), "-")
    IN  <<parts[1], parts[3]>>

\* one row of _get_external_citations' loop that also keeps an edge with one
\* unmapped endpoint
external_row_keeping_unmapped(omid_to_external, citation) ==
    LET lr == parse_citation(citation)
        source_external_id == DictGet(omid_to_external, BR \o lr[1])
        target_external_id == DictGet(omid_to_external, BR \o lr[2])
    IN  IF Truthy(source_external_id) \/ Truthy(target_external_id)
        THEN << <<source_external_id, target_external_id>> >>
        ELSE <<>>

\* one row of _get_external_citations' loop: <<>> or one translated edge
external_row(omid_to_external, citation) ==
    LET lr == parse_citation(citation)
        source_external_id == DictGet(omid_to_external, BR \o lr[1])
        target_external_id == DictGet(omid_to_external, BR \o lr[2])
    IN  IF Truthy(source_external_id) /\ Truthy(target_external_id)
        THEN << <<source_external_id, target_external_id>> >>
        ELSE <<>>

RECURSIVE external_rows(_, _)
external_rows(omid_to_external, cit) ==
    IF cit = <<>> THEN <<>>
    ELSE external_row(omid_to_external, Head(cit))
            \o external_rows(omid_to_external, Tail(cit))

\* one row of iter_omid_citations' loop with source and target exchanged
omid_row_swapped(citation) ==
    LET lr == parse_citation(citation)
    IN  << <<BR \o lr[2], BR \o lr[1]>> >>

\* one row of iter_omid_citations' loop: always one native edge
omid_row(citation) ==
    LET lr == parse_citation(citation)
    IN  << <<BR \o lr[1], BR \o lr[2]>> >>

RECURSIVE omid_rows(_)
omid_rows(cit) ==
    IF cit = <<>> THEN <<>> ELSE omid_row(Head(cit)) \o omid_rows(Tail(cit))

\* the writing branch of _get_external_citations once the map t is there:
\* every row of the citation archive is translated, written and yielded
write_external_citations(t, efile, cit) ==
    IF ~t.ok
    THEN [ok |-> FALSE, edges |-> <<>>, edgeFile |-> efile, mapFile |-> t.file,
          translated |-> TRUE, scannedMeta |-> t.scanned, scannedCit |-> FALSE]
    ELSE \* the rows are computed once and go to the file and to the caller
         LET edges == external_rows(t.rv, cit)
         IN  [ok |-> TRUE, edges |-> edges, edgeFile |-> FileOf(edges),
              mapFile |-> t.file,
              translated |-> TRUE, scannedMeta |-> t.scanned, scannedCit |-> TRUE]

\* _get_external_citations obtaining the identifier map before it looks for
\* the persisted edge stream
get_external_citations_map_first(prefix, force, efile, mfile, meta, cit) ==
    IF efile.exists /\ ~force
    THEN [ok |-> TRUE, edges |-> efile.rows, edgeFile |-> efile,
          mapFile |-> get_omid_to_external(prefix, force, mfile, meta).file,
          translated |-> TRUE,
          scannedMeta |-> get_omid_to_external(prefix, force, mfile, meta).scanned,
          scannedCit |-> FALSE]
    ELSE write_external_citations(get_omid_to_external(prefix, force, mfile, meta),
                                  efile, cit)

\* _get_external_citations(prefix, force_process=force), consumed to the end:
\* the edges yielded, both artifacts afterwards, and what was read
get_external_citations(prefix, force, efile, mfile, meta, cit) ==
    IF efile.exists /\ ~force
    THEN [ok |-> TRUE, edges |-> efile.rows, edgeFile |-> efile, mapFile |-> mfile,
          translated |-> FALSE, scannedMeta |-> FALSE, scannedCit |-> FALSE]
    ELSE write_external_citations(get_omid_to_external(prefix, force, mfile, meta),
                                  efile, cit)

\* iter_omid_citations(force_process=force), consumed to the end
iter_omid_citations(force, efile, mfile, cit) ==
    IF efile.exists /\ ~force
    THEN [ok |-> TRUE, edges |-> efile.rows, edgeFile |-> efile, mapFile |-> mfile,
          translated |-> FALSE, scannedMeta |-> FALSE, scannedCit |-> FALSE]
    ELSE [ok |-> TRUE, edges |-> omid_rows(cit), edgeFile |-> FileOf(omid_rows(cit)),
          mapFile |-> mfile,
          translated |-> FALSE, scannedMeta |-> FALSE, scannedCit |-> TRUE]

\* iter_pubmed_citations / iter_doi_citations: the prefix each one passes on
iter_pubmed_citations(force, efile, mfile, meta, cit) ==
    get_external_citations("pmid", force, efile, mfile, meta, cit)

iter_doi_citations(force, efile, mfile, meta, cit) ==
    get_external_citations("doi", force, efile, mfile, meta, cit)

\* the edge stream named v, run against the current disk
EdgeStream(v, force) ==
    CASE v = "pmid" -> iter_pubmed_citations(force, edgeFile.pmid, mapFile.pmid, rawMeta, rawCit)
      [] v = "doi" -> iter_doi_citations(force, edgeFile.doi, mapFile.doi, rawMeta, rawCit)
      [] v = "omid" -> iter_omid_citations(force, edgeFile.omid, NoFileAt, rawCit)

\* the disk after the edge stream named v produced r
EdgeFileAfter(v, r) == [edgeFile EXCEPT ![v] = r.edgeFile]
MapFileAfter(v, r) ==
    IF v \in ExternalPrefixes THEN [mapFile EXCEPT ![v] = r.mapFile] ELSE mapFile

---------------------------------------------------------------------------
(* The record of the most recent call *)

NoHandle == [fn |-> <<"none", "none">>, serial |-> 0, path |-> "none", edges |-> <<>>]

NoCall ==
    [op |-> "none", arg |-> "none", force |-> FALSE, ident |-> <<>>, rtype |-> "none",
     vocab |-> "none", ok |-> TRUE, err |-> "none", value |-> <<>>, hit |-> FALSE,
     scannedMeta |-> {}, scannedCit |-> {}, wroteMap |-> {}, wroteEdges |-> {},
     translated |-> {}, extracted |-> {}, built |-> {}, opened |-> {}, tested |-> {},
     handle |-> NoHandle]

\* no evaluation of Work.omid is under way
NoFrames == [pc |-> "idle", references |-> <<>>, depth |-> 0, i |-> 0]

\* no generator of an edge stream is held
NoGen ==
    [state |-> "none", v |-> "none", force |-> FALSE, branch |-> "none", pos |-> 0,
     out |-> <<>>, map |-> EmptyDict, readCit |-> FALSE, translated |-> FALSE,
     emitted |-> [v \in Vocabularies |-> <<>>],
     complete |-> [v \in Vocabularies |-> FALSE]]

\* the threads of one process, and a thread outside every _get_*_cache
Threads == {"t1", "t2"}
Idle ==
    [pc |-> "idle", v |-> "none", found |-> FALSE, built |-> FALSE, body |-> NoHandle,
     handle |-> NoHandle]

---------------------------------------------------------------------------
(* download.py / client.py: the memoized public accessors *)

Accessors ==
    {"download.get_omid_to_pubmed", "download.get_omid_to_doi",
     "client.get_omid_to_pubmed", "client.get_omid_to_doi"}

\* the prefix each accessor hands to _get_omid_to_external
accessor_prefix(f) ==
    CASE f = "download.get_omid_to_pubmed" -> "pmid"
      [] f = "download.get_omid_to_doi" -> "pmid"
      [] f = "client.get_omid_to_pubmed" -> "pmid"
      [] f = "client.get_omid_to_doi" -> "pmid"

\* how a call spells force_process: the lru_cache key of the call
CallKeys == {"()", "force_process=False", "force_process=True"}
ForceOf(key) == key = "force_process=True"

NoEntry == [key |-> "empty", value |-> EmptyDict, order |-> <<>>]

\* functools.lru_cache(1): the entry answers only the key it holds
lru_hit(entry, key) == entry.key = key

\* get_pubmed_to_omid of download.py and client.py, each behind its lru_cache(1)
Inverses == {"download.get_pubmed_to_omid", "client.get_pubmed_to_omid"}

forward_of(module) ==
    IF module = "download" THEN "download.get_omid_to_pubmed"
    ELSE "client.get_omid_to_pubmed"

inverse_of(module) ==
    IF module = "download" THEN "download.get_pubmed_to_omid"
    ELSE "client.get_pubmed_to_omid"

\* a memoized accessor that missed: r is what _get_omid_to_external returned
accessor_miss(f, key, memo, mfiles, r) ==
    [ok |-> r.ok, rv |-> r.rv, order |-> r.order,
     memo |-> IF r.ok
              THEN [memo EXCEPT ![f] = [key |-> key, value |-> r.rv, order |-> r.order]]
              ELSE memo,
     mapFile |-> [mfiles EXCEPT ![accessor_prefix(f)] = r.file]]

\* get_omid_to_pubmed called inside another function: the dict it returns and
\* the memo and the map files it leaves
accessor_call(f, key, memo, mfiles) ==
    IF lru_hit(memo[f], key)
    THEN [ok |-> TRUE, rv |-> memo[f].value, order |-> memo[f].order,
          memo |-> memo, mapFile |-> mfiles]
    ELSE accessor_miss(f, key, memo, mfiles,
                       get_omid_to_external(accessor_prefix(f), ForceOf(key),
                                            mfiles[accessor_prefix(f)], rawMeta))

\* {pubmed: omid for omid, pubmed in d.items()}: the items come in the order
\* of the keys, and a later omid replaces an earlier one under the same pubmed
RECURSIVE Invert(_, _)
Invert(d, order) ==
    IF order = <<>> THEN EmptyDict
    ELSE DictSet(Invert(d, SubSeq(order, 1, Len(order) - 1)),
                 d[order[Len(order)]], order[Len(order)])

\* a memoized get_pubmed_to_omid that missed: a is what get_omid_to_pubmed
\* returned (no caller iterates the inverted dict: its order is not kept)
inverse_miss(f, key, a) ==
    [ok |-> a.ok,
     rv |-> IF a.ok THEN Invert(a.rv, a.order) ELSE EmptyDict,
     memo |-> IF a.ok
              THEN [a.memo EXCEPT ![f] = [key |-> key, value |-> Invert(a.rv, a.order),
                                          order |-> <<>>]]
              ELSE a.memo,
     mapFile |-> a.mapFile]

\* get_pubmed_to_omid() of the module; it calls get_omid_to_pubmed without an
\* argument in download.py, with force_process spelled out in client.py
inverse_call(module, key, memo, mfiles) ==
    IF lru_hit(memo[inverse_of(module)], key)
    THEN [ok |-> TRUE, rv |-> memo[inverse_of(module)].value,
          memo |-> memo, mapFile |-> mfiles]
    ELSE inverse_miss(inverse_of(module), key,
                      accessor_call(forward_of(module),
                                    IF module = "download" THEN "()"
                                    ELSE IF ForceOf(key) THEN "force_process=True"
                                    ELSE "force_process=False",
                                    memo, mfiles))

\* c.rv.get(k) on the dict an accessor returned as c
dict_lookup(c, k) ==
    [ok |-> c.ok, value |-> IF c.ok THEN DictGet(c.rv, k) ELSE None,
     memo |-> c.memo, mapFile |-> c.mapFile]

\* get_omid_from_pubmed(pubmed): get_pubmed_to_omid().get(str(pubmed))
get_omid_from_pubmed(module, pubmed, memo, mfiles) ==
    dict_lookup(inverse_call(module, "()", memo, mfiles), pubmed)

\* get_pubmed_from_omid(omid): get_omid_to_pubmed().get(omid)
get_pubmed_from_omid(module, omid, memo, mfiles) ==
    dict_lookup(accessor_call(forward_of(module), "()", memo, mfiles), omid)

\* the outer call of get_pubmed_from_omid(get_omid_from_pubmed(pubmed)), made
\* on what the inner call returned and left
round_trip_outer(module, inner) ==
    IF inner.ok THEN get_pubmed_from_omid(module, inner.value, inner.memo, inner.mapFile)
    ELSE inner

round_trip(module, pubmed, memo, mfiles) ==
    round_trip_outer(module, get_omid_from_pubmed(module, pubmed, memo, mfiles))

\* one of the three lookups, called by the user of the module
Lookup(op, module, ident) ==
    \E r \in {CASE op = "get_omid_from_pubmed" ->
                        get_omid_from_pubmed(module, ident, accMemo, mapFile)
                 [] op = "get_pubmed_from_omid" ->
                        get_pubmed_from_omid(module, ident, accMemo, mapFile)
                 [] op = "round_trip" -> round_trip(module, ident, accMemo, mapFile)} :
        /\ accMemo' = r.memo
        /\ mapFile' = r.mapFile
        /\ last' = [NoCall EXCEPT !.op = op, !.arg = module, !.ident = ident,
                        !.ok = r.ok, !.value = r.value,
                        !.err = IF r.ok THEN "none" ELSE "CorruptArtifact"]
        /\ UNCHANGED <<rawMeta, rawCit, edgeFile, indexDisk, cacheMemo, dbMemo, runs,
                       gen, threads, frames>>

\* a forced rebuild of the map that also removes the edge artifact built from
\* the map it replaces
Translate_invalidating(prefix, force) ==
    \E r \in {get_omid_to_external(prefix, force, mapFile[prefix], rawMeta)} :
        /\ mapFile' = [mapFile EXCEPT ![prefix] = r.file]
        /\ edgeFile' = IF force THEN [edgeFile EXCEPT ![prefix] = NoFileAt] ELSE edgeFile
        /\ last' = [NoCall EXCEPT !.op = "translate", !.arg = prefix, !.force = force,
                        !.ok = r.ok, !.value = r.rv,
                        !.err = IF r.ok THEN "none" ELSE "CorruptArtifact",
                        !.translated = {prefix},
                        !.scannedMeta = IF r.scanned THEN {prefix} ELSE {},
                        !.wroteMap = IF r.scanned THEN {prefix} ELSE {}]
        /\ UNCHANGED <<rawMeta, rawCit, indexDisk, accMemo, cacheMemo, dbMemo, runs,
                       gen, threads, frames>>

\* _get_omid_to_external(prefix, force_process=force), called directly
Translate(prefix, force) ==
    \E r \in {get_omid_to_external(prefix, force, mapFile[prefix], rawMeta)} :
        /\ mapFile' = [mapFile EXCEPT ![prefix] = r.file]
        /\ last' = [NoCall EXCEPT !.op = "translate", !.arg = prefix, !.force = force,
                        !.ok = r.ok, !.value = r.rv,
                        !.err = IF r.ok THEN "none" ELSE "CorruptArtifact",
                        !.translated = {prefix},
                        !.scannedMeta = IF r.scanned THEN {prefix} ELSE {},
                        !.wroteMap = IF r.scanned THEN {prefix} ELSE {}]
        /\ UNCHANGED <<rawMeta, rawCit, edgeFile, indexDisk, accMemo, cacheMemo, dbMemo, runs,
                       gen, threads, frames>>

\* get_omid_to_pubmed / get_omid_to_doi of download.py and client.py
Accessor(f, key) ==
    LET prefix == accessor_prefix(f)
        call == [NoCall EXCEPT !.op = f, !.arg = prefix, !.force = ForceOf(key)]
    IN  IF lru_hit(accMemo[f], key)
        THEN /\ last' = [call EXCEPT !.hit = TRUE, !.value = accMemo[f].value]
             /\ UNCHANGED <<rawMeta, rawCit, mapFile, edgeFile, indexDisk, accMemo,
                            cacheMemo, dbMemo, runs, gen, threads, frames>>
        ELSE \E r \in {get_omid_to_external(prefix, ForceOf(key), mapFile[prefix], rawMeta)} :
             /\ mapFile' = [mapFile EXCEPT ![prefix] = r.file]
             /\ accMemo' = IF r.ok
                           THEN [accMemo EXCEPT ![f] = [key |-> key, value |-> r.rv,
                                                        order |-> r.order]]
                           ELSE accMemo
             /\ last' = [call EXCEPT !.ok = r.ok, !.value = r.rv,
                             !.err = IF r.ok THEN "none" ELSE "CorruptArtifact",
                             !.translated = {prefix},
                             !.scannedMeta = IF r.scanned THEN {prefix} ELSE {},
                             !.wroteMap = IF r.scanned THEN {prefix} ELSE {}]
             /\ UNCHANGED <<rawMeta, rawCit, edgeFile, indexDisk, cacheMemo, dbMemo, runs,
                            gen, threads, frames>>

\* an edge stream of download.py, consumed to the end by its caller:
\* iter_pubmed_citations, iter_doi_citations or iter_omid_citations
Extract(v, force) ==
    \E r \in {EdgeStream(v, force)} :
        /\ edgeFile' = EdgeFileAfter(v, r)
        /\ mapFile' = MapFileAfter(v, r)
        /\ last' = [NoCall EXCEPT !.op = "extract", !.arg = v, !.force = force,
                        !.ok = r.ok, !.value = r.edges,
                        !.err = IF r.ok THEN "none" ELSE "CorruptArtifact",
                        !.extracted = {v},
                        !.translated = IF r.translated THEN {v} ELSE {},
                        !.scannedMeta = IF r.scannedMeta THEN {v} ELSE {},
                        !.wroteMap = IF r.scannedMeta THEN {v} ELSE {},
                        !.scannedCit = IF r.scannedCit THEN {v} ELSE {},
                        !.wroteEdges = IF r.scannedCit THEN {v} ELSE {}]
        /\ UNCHANGED <<rawMeta, rawCit, indexDisk, accMemo, cacheMemo, dbMemo, runs,
                       gen, threads, frames>>

---------------------------------------------------------------------------
(* download.py: a scan that the raw archive fails under *)

\* a scan that removes the file it was writing when the archive fails
interrupted_scan_discarded(prefix, meta, k) == NoFileAt

\* the map file after the metadata archive failed behind its k-th record: the
\* exception leaves the with block, which closes the file with the header row
\* and the rows written so far
interrupted_scan(prefix, meta, k) ==
    FileOf(<<MapHeader(prefix)>> \o iter_omid_to_external_identifier(prefix, SubSeq(meta, 1, k)))

\* _get_omid_to_external(prefix, force_process=force) whose scan fails behind
\* the k-th record of the metadata archive
TranslateInterrupted(prefix, force, k) ==
    /\ ~(mapFile[prefix].exists /\ ~force)
    /\ k < Len(rawMeta)
    /\ mapFile' = [mapFile EXCEPT ![prefix] = interrupted_scan(prefix, rawMeta, k)]
    /\ last' = [NoCall EXCEPT !.op = "translate", !.arg = prefix, !.force = force,
                    !.ok = FALSE, !.err = "IOError",
                    !.translated = {prefix}, !.scannedMeta = {prefix}, !.wroteMap = {prefix}]
    /\ UNCHANGED <<rawMeta, rawCit, edgeFile, indexDisk, accMemo, cacheMemo, dbMemo, runs,
                   gen, threads, frames>>

\* the edge stream named v over the first k rows of the citation archive
interrupted_stream(v, force, k) ==
    CASE v = "pmid" -> get_external_citations("pmid", force, edgeFile.pmid, mapFile.pmid,
                                              rawMeta, SubSeq(rawCit, 1, k))
      [] v = "doi" -> get_external_citations("doi", force, edgeFile.doi, mapFile.doi,
                                             rawMeta, SubSeq(rawCit, 1, k))
      [] v = "omid" -> iter_omid_citations(force, edgeFile.omid, NoFileAt, SubSeq(rawCit, 1, k))

\* an edge stream, consumed by its caller, whose citation archive fails
\* behind its k-th row: the rows written so far stay in the closed file
ExtractInterrupted(v, force, k) ==
    /\ ~(edgeFile[v].exists /\ ~force)
    /\ k < Len(rawCit)
    /\ \E r \in {interrupted_stream(v, force, k)} :
        /\ r.ok
        /\ edgeFile' = EdgeFileAfter(v, r)
        /\ mapFile' = MapFileAfter(v, r)
        /\ last' = [NoCall EXCEPT !.op = "extract", !.arg = v, !.force = force,
                        !.ok = FALSE, !.err = "IOError",
                        !.extracted = {v},
                        !.translated = IF r.translated THEN {v} ELSE {},
                        !.scannedMeta = IF r.scannedMeta THEN {v} ELSE {},
                        !.wroteMap = IF r.scannedMeta THEN {v} ELSE {},
                        !.scannedCit = {v}, !.wroteEdges = {v}]
    /\ UNCHANGED <<rawMeta, rawCit, indexDisk, accMemo, cacheMemo, dbMemo, runs,
                   gen, threads, frames>>

---------------------------------------------------------------------------
(* download.py: an edge stream as the generator it is, resumed by its caller *)

\* what one row of the citation archive gives the stream of vocabulary v
stream_row(v, omid_to_external, citation) ==
    IF v = "omid" THEN omid_row(citation) ELSE external_row(omid_to_external, citation)

\* the first row after pos that reaches the yield, 0 when the archive ends first
RECURSIVE next_yield(_, _, _, _)
next_yield(v, omid_to_external, cit, pos) ==
    IF pos >= Len(cit) THEN 0
    ELSE IF stream_row(v, omid_to_external, cit[pos + 1]) # <<>> THEN pos + 1
    ELSE next_yield(v, omid_to_external, cit, pos + 1)

\* a loop that yields the row first and writes it when it is resumed
rows_on_disk_at_yield_late(rows, row) == rows

\* writer.writerow(...) stands before the yield: the row a caller receives is
\* already among the rows of the file
rows_on_disk_at_yield(rows, row) == Append(rows, row)

\* the generator and the disk it works on
Running(g) == [gen |-> g, edgeFile |-> edgeFile, mapFile |-> mapFile]

\* the else branch once the identifier map t is there: safe_open_writer
\* creates the file, or empties the one that was there
gen_open_writer(g, t, mfile) ==
    IF ~t.ok
    THEN [gen |-> [g EXCEPT !.state = "failed", !.branch = "write", !.translated = TRUE],
          edgeFile |-> edgeFile, mapFile |-> mfile]
    ELSE [gen |-> [g EXCEPT !.state = "running", !.branch = "write", !.map = t.rv,
                            !.readCit = TRUE,
                            !.translated = (g.v \in ExternalPrefixes),
                            !.emitted[g.v] = <<>>, !.complete[g.v] = FALSE],
          edgeFile |-> [edgeFile EXCEPT ![g.v] = FileOf(<<>>)],
          mapFile |-> mfile]

\* the first next() enters the body: the test of out_path and what precedes
\* the loop of the branch taken
gen_open(g) ==
    IF edgeFile[g.v].exists /\ ~g.force
    THEN Running([g EXCEPT !.state = "running", !.branch = "read"])
    ELSE IF g.v = "omid"
    THEN gen_open_writer(g, [ok |-> TRUE, rv |-> EmptyDict], mapFile)
    ELSE gen_open_writer(g, get_omid_to_external(g.v, g.force, mapFile[g.v], rawMeta),
                         [mapFile EXCEPT ![g.v] =
                            get_omid_to_external(g.v, g.force, mapFile[g.v], rawMeta).file])

\* the writing loop resumed at row i of the citation archive, 0 for its end
gen_write(o, i) ==
    IF i = 0
    THEN [o EXCEPT !.gen.state = "done", !.gen.pos = Len(rawCit),
                   !.gen.complete[o.gen.v] = TRUE]
    ELSE [o EXCEPT !.gen.pos = i,
                   !.gen.out = Append(@, stream_row(o.gen.v, o.gen.map, rawCit[i])[1]),
                   !.gen.emitted[o.gen.v] =
                        Append(@, stream_row(o.gen.v, o.gen.map, rawCit[i])[1]),
                   !.edgeFile[o.gen.v] =
                        FileOf(rows_on_disk_at_yield(
                                 @.rows, stream_row(o.gen.v, o.gen.map, rawCit[i])[1]))]

\* next(): the body runs to its next yield, or to its end
gen_advance(o) ==
    IF o.gen.state # "running" THEN o
    ELSE IF o.gen.branch = "read"
    THEN IF o.gen.pos < Len(o.edgeFile[o.gen.v].rows)
         THEN [o EXCEPT !.gen.pos = @ + 1,
                        !.gen.out = Append(@, o.edgeFile[o.gen.v].rows[o.gen.pos + 1])]
         ELSE [o EXCEPT !.gen.state = "done"]
    ELSE gen_write(o, next_yield(o.gen.v, o.gen.map, rawCit, o.gen.pos))

\* the generator as the next resumption finds it
gen_entered(g) == IF g.state = "created" THEN gen_open(g) ELSE Running(g)

GenRecord(op) == [NoCall EXCEPT !.op = op, !.arg = gen.v, !.force = gen.force]

\* iter_pubmed_citations(...) / iter_doi_citations(...) / iter_omid_citations(...):
\* the call returns a generator and runs nothing of the body
GenCall(v, force) ==
    /\ gen.state \in {"none", "done", "closed", "failed"}
    /\ gen' = [NoGen EXCEPT !.state = "created", !.v = v, !.force = force,
                            !.emitted = gen.emitted, !.complete = gen.complete]
    /\ last' = [NoCall EXCEPT !.op = "gen.call", !.arg = v, !.force = force]
    /\ UNCHANGED <<rawMeta, rawCit, mapFile, edgeFile, indexDisk, accMemo, cacheMemo,
                   dbMemo, runs, threads, frames>>

\* the caller takes the next edge
GenNext ==
    /\ gen.state \in {"created", "running"}
    /\ \E o \in {gen_advance(gen_entered(gen))} :
        /\ gen' = o.gen
        /\ edgeFile' = o.edgeFile
        /\ mapFile' = o.mapFile
    /\ last' = GenRecord("gen.next")
    /\ UNCHANGED <<rawMeta, rawCit, indexDisk, accMemo, cacheMemo, dbMemo, runs, threads, frames>>

\* the caller drops the generator: a suspended body leaves its with block,
\* which closes the file with the rows it has
GenClose ==
    /\ gen.state \in {"created", "running"}
    /\ gen' = [gen EXCEPT !.state = "closed"]
    /\ last' = GenRecord("gen.close")
    /\ UNCHANGED <<rawMeta, rawCit, mapFile, edgeFile, indexDisk, accMemo, cacheMemo,
                   dbMemo, runs, threads, frames>>

---------------------------------------------------------------------------
(* pystow.graph: the graph index behind GraphCache *)

\* GraphCache.out_edges(identifier): the targets of identifier, in stream order
RECURSIVE out_edges(_, _)
out_edges(edges, identifier) ==
    IF edges = <<>> THEN <<>>
    ELSE (IF Head(edges)[1] = identifier THEN <<Head(edges)[2]>> ELSE <<>>)
            \o out_edges(Tail(edges), identifier)

\* GraphCache.in_edges(identifier): the sources of identifier, in stream order
RECURSIVE in_edges(_, _)
in_edges(edges, identifier) ==
    IF edges = <<>> THEN <<>>
    ELSE (IF Head(edges)[2] = identifier THEN <<Head(edges)[1]>> ELSE <<>>)
            \o in_edges(Tail(edges), identifier)

\* build_graph_cache(edges, paths): the index over the edges the stream named
\* `stream` produced as r, written at target
build_graph_cache(fn, exists_path, stream, target, r) ==
    [ok |-> r.ok,
     handle |-> IF r.ok
                THEN [fn |-> fn, serial |-> runs[fn] + 1, path |-> target,
                      edges |-> r.edges]
                ELSE NoHandle,
     indexDisk |-> IF r.ok THEN [indexDisk EXCEPT ![target] = FileOf(r.edges)]
                   ELSE indexDisk,
     edgeFile |-> EdgeFileAfter(stream, r),
     mapFile |-> MapFileAfter(stream, r),
     tested |-> {exists_path},
     built |-> IF r.ok THEN {target} ELSE {},
     opened |-> {},
     extracted |-> {stream},
     translated |-> IF r.translated THEN {stream} ELSE {},
     scannedMeta |-> IF r.scannedMeta THEN {stream} ELSE {},
     scannedCit |-> IF r.scannedCit THEN {stream} ELSE {}]

\* GraphCache(paths): the index found at target is opened, nothing is read
\* from an edge stream
GraphCache(fn, exists_path, target) ==
    [ok |-> indexDisk[target].exists,
     handle |-> IF indexDisk[target].exists
                THEN [fn |-> fn, serial |-> runs[fn] + 1, path |-> target,
                      edges |-> indexDisk[target].rows]
                ELSE NoHandle,
     indexDisk |-> indexDisk, edgeFile |-> edgeFile, mapFile |-> mapFile,
     tested |-> {exists_path},
     built |-> {},
     opened |-> IF indexDisk[target].exists THEN {target} ELSE {},
     extracted |-> {}, translated |-> {}, scannedMeta |-> {}, scannedCit |-> {}]

\* the body of a _get_*_cache: build_graph_cache(stream, paths) when the tested
\* paths do not exist, GraphCache(paths) when they do
build_or_open(fn, exists_path, stream, target) ==
    IF ~indexDisk[exists_path].exists
    THEN build_graph_cache(fn, exists_path, stream, target, EdgeStream(stream, FALSE))
    ELSE GraphCache(fn, exists_path, target)

\* a single lru_cache(1) shared by the three vocabularies: storing one
\* vocabulary's handle evicts the others
memo_store_shared(memo, v, handle) ==
    [w \in DOMAIN memo |-> IF w = v THEN handle ELSE NoHandle]

\* @lru_cache(1) on each zero-argument _get_*_cache: one entry per function
memo_store(memo, v, handle) == [memo EXCEPT ![v] = handle]

\* a memo that also keeps the outcome of a body that raised: the next call is
\* answered from it
memoized_keeping_failure(memo, v, body) ==
    IF memo[v] # NoHandle
    THEN [ok |-> TRUE, hit |-> TRUE, handle |-> memo[v], memo |-> memo,
          indexDisk |-> indexDisk, edgeFile |-> edgeFile, mapFile |-> mapFile,
          tested |-> {}, built |-> {}, opened |-> {}, extracted |-> {}, translated |-> {},
          scannedMeta |-> {}, scannedCit |-> {}]
    ELSE [ok |-> body.ok, hit |-> FALSE, handle |-> body.handle,
          memo |-> IF body.ok THEN [memo EXCEPT ![v] = body.handle]
                   ELSE [memo EXCEPT ![v] = [NoHandle EXCEPT !.path = "failed"]],
          indexDisk |-> body.indexDisk, edgeFile |-> body.edgeFile,
          mapFile |-> body.mapFile,
          tested |-> body.tested,
          built |-> body.built, opened |-> body.opened, extracted |-> body.extracted,
          translated |-> body.translated,
          scannedMeta |-> body.scannedMeta, scannedCit |-> body.scannedCit]

\* a memoized _get_*_cache(): the memo's handle when there is one, the body otherwise
memoized(memo, v, body) ==
    IF memo[v] # NoHandle
    THEN [ok |-> TRUE, hit |-> TRUE, handle |-> memo[v], memo |-> memo,
          indexDisk |-> indexDisk, edgeFile |-> edgeFile, mapFile |-> mapFile,
          tested |-> {}, built |-> {}, opened |-> {}, extracted |-> {}, translated |-> {},
          scannedMeta |-> {}, scannedCit |-> {}]
    ELSE [ok |-> body.ok, hit |-> FALSE, handle |-> body.handle,
          memo |-> IF body.ok THEN memo_store(memo, v, body.handle) ELSE memo,
          indexDisk |-> body.indexDisk, edgeFile |-> body.edgeFile,
          mapFile |-> body.mapFile,
          tested |-> body.tested,
          built |-> body.built, opened |-> body.opened, extracted |-> body.extracted,
          translated |-> body.translated,
          scannedMeta |-> body.scannedMeta, scannedCit |-> body.scannedCit]

\* the handles a process holds after a call that made (or failed to make) one
RunsAfter(fn, g) ==
    IF g.ok /\ ~g.hit THEN [runs EXCEPT ![fn] = runs[fn] + 1] ELSE runs

\* what a resolution adds to the record of the call
Resolved(call, g) ==
    [call EXCEPT !.hit = g.hit, !.handle = g.handle, !.tested = g.tested,
                 !.built = g.built, !.opened = g.opened, !.extracted = g.extracted,
                 !.translated = g.translated, !.scannedMeta = g.scannedMeta,
                 !.wroteMap = g.scannedMeta,
                 !.scannedCit = g.scannedCit, !.wroteEdges = g.scannedCit]

---------------------------------------------------------------------------
(* cache.py *)

\* _get_doi_cache testing the omid location
cache_exists_path_crossed(v) ==
    CASE v = "pmid" -> "pmid"
      [] v = "omid" -> "omid"
      [] v = "doi" -> "omid"

\* the index location whose existence _get_{v}_cache tests
cache_exists_path(v) ==
    CASE v = "pmid" -> "pmid"
      [] v = "omid" -> "omid"
      [] v = "doi" -> "doi"

\* _get_doi_cache building from the omid edge stream
cache_stream_crossed(v) ==
    CASE v = "pmid" -> "pmid"
      [] v = "omid" -> "omid"
      [] v = "doi" -> "omid"

\* the edge stream _get_{v}_cache hands to build_graph_cache
cache_stream(v) ==
    CASE v = "pmid" -> "pmid"
      [] v = "omid" -> "omid"
      [] v = "doi" -> "doi"

\* cache.py's _get_pubmed_cache / _get_omid_cache / _get_doi_cache
cache_get(v) ==
    memoized(cacheMemo, v,
             build_or_open(<<"cache", v>>, cache_exists_path(v), cache_stream(v), v))

\* a dispatch that answers doi from the omid index
cache_dispatch_doi_to_omid(prefix) ==
    CASE prefix \in {"pmid", "pubmed"} -> "pmid"
      [] prefix = "omid" -> "omid"
      [] prefix = "doi" -> "omid"
      [] OTHER -> "unsupported"

\* _get_cache(prefix): the vocabulary whose cache answers, or unsupported
cache_dispatch(prefix) ==
    CASE prefix \in {"pmid", "pubmed"} -> "pmid"
      [] prefix = "omid" -> "omid"
      [] prefix = "doi" -> "doi"
      [] OTHER -> "unsupported"

CITATION_PREFIXES == {"doi", "pubmed", "omid"}

\* handle_input without the membership test
handle_input_unchecked(prefix) ==
    IF prefix = "pubmed" THEN [ok |-> TRUE, prefix |-> "pmid"]
    ELSE [ok |-> TRUE, prefix |-> prefix]

\* models.handle_input on a Reference: reject, or normalise pubmed to pmid
handle_input(prefix) ==
    IF prefix \notin CITATION_PREFIXES THEN [ok |-> FALSE, prefix |-> prefix]
    ELSE IF prefix = "pubmed" THEN [ok |-> TRUE, prefix |-> "pmid"]
    ELSE [ok |-> TRUE, prefix |-> prefix]

\* the identifiers of the handle in direction dir
edges_of(dir, handle, identifier) ==
    IF dir = "out" THEN out_edges(handle.edges, identifier)
    ELSE in_edges(handle.edges, identifier)

\* the list a query returns for return_type "str" or "reference"
RECURSIVE as_references(_, _)
as_references(prefix, identifiers) ==
    IF identifiers = <<>> THEN <<>>
    ELSE << <<StrOf[prefix], Head(identifiers)>> >> \o as_references(prefix, Tail(identifiers))

returned(rtype, prefix, identifiers) ==
    IF rtype = "str" THEN identifiers ELSE as_references(prefix, identifiers)

Fails(call, err) == [call EXCEPT !.ok = FALSE, !.err = err]

\* a call that raised before it resolved any cache: nothing changes
Untouched(call) ==
    [call |-> call, cacheMemo |-> cacheMemo, dbMemo |-> dbMemo, runs |-> runs,
     indexDisk |-> indexDisk, edgeFile |-> edgeFile, mapFile |-> mapFile]

\* the rest of a query once the cache of vocabulary v is resolved as g: the
\* edges of the identifier in direction dir, in the form rtype asks for
answer(module, call, dir, rtype, prefix, identifier, v, g) ==
    [call |-> IF g.ok
              THEN [Resolved(call, g) EXCEPT
                      !.vocab = v,
                      !.value = returned(rtype, prefix,
                                         edges_of(dir, g.handle, identifier))]
              ELSE [Fails(Resolved(call, g), "BuildError") EXCEPT !.vocab = v],
     cacheMemo |-> IF module = "cache" THEN g.memo ELSE cacheMemo,
     dbMemo |-> IF module = "db" THEN g.memo ELSE dbMemo,
     runs |-> RunsAfter(<<module, v>>, g),
     indexDisk |-> g.indexDisk, edgeFile |-> g.edgeFile, mapFile |-> g.mapFile]

\* cache.py's get_outgoing_citations (dir = "out") / get_incoming_citations
\* ("in"): the record of the call and the state it leaves
cache_query(dir, prefix, identifier, rtype) ==
    LET call == [NoCall EXCEPT !.op = IF dir = "out" THEN "cache.out" ELSE "cache.in",
                               !.arg = prefix, !.ident = identifier, !.rtype = rtype]
        reference == handle_input(prefix)
        v == cache_dispatch(reference.prefix)
    IN  IF rtype = "citation" THEN Untouched(Fails(call, "NotImplementedError"))
        ELSE IF ~reference.ok THEN Untouched(Fails(call, "ValueError"))
        ELSE IF v = "unsupported" THEN Untouched(Fails(call, "NotImplementedError"))
        ELSE answer("cache", call, dir, rtype, reference.prefix, identifier, v,
                    cache_get(v))

\* a call of this process, applied to the state
Apply(q) ==
    /\ last' = q.call
    /\ cacheMemo' = q.cacheMemo
    /\ dbMemo' = q.dbMemo
    /\ runs' = q.runs
    /\ indexDisk' = q.indexDisk
    /\ edgeFile' = q.edgeFile
    /\ mapFile' = q.mapFile
    /\ UNCHANGED <<rawMeta, rawCit, accMemo, gen, threads, frames>>

CacheQuery(dir, prefix, identifier, rtype) ==
    \E q \in {cache_query(dir, prefix, identifier, rtype)} : Apply(q)

\* _get_pubmed_cache() / _get_omid_cache() / _get_doi_cache() called to warm up
CacheWarm(v) ==
    \E g \in {cache_get(v)} :
        Apply([call |-> [Resolved([NoCall EXCEPT !.op = "cache.warm", !.arg = v], g) EXCEPT
                            !.vocab = v, !.ok = g.ok,
                            !.err = IF g.ok THEN "none" ELSE "BuildError"],
               cacheMemo |-> g.memo, dbMemo |-> dbMemo,
               runs |-> RunsAfter(<<"cache", v>>, g),
               indexDisk |-> g.indexDisk, edgeFile |-> g.edgeFile, mapFile |-> g.mapFile])

\* a first _get_*_cache() of the process that goes on to build, and whose
\* citation archive fails behind its k-th row: the edge stream raises inside
\* build_graph_cache, and the exception leaves the memoized function
CacheWarmInterrupted(v, k) ==
    /\ cacheMemo[v] = NoHandle
    /\ ~indexDisk[cache_exists_path(v)].exists
    /\ ~edgeFile[cache_stream(v)].exists
    /\ k < Len(rawCit)
    /\ \E r \in {interrupted_stream(cache_stream(v), FALSE, k)} :
        /\ r.ok
        /\ \E g \in {memoized(cacheMemo, v,
                               build_graph_cache(<<"cache", v>>, cache_exists_path(v),
                                                 cache_stream(v), v,
                                                 [r EXCEPT !.ok = FALSE]))} :
            Apply([call |-> [Resolved([NoCall EXCEPT !.op = "cache.warm", !.arg = v], g) EXCEPT
                                !.vocab = v, !.ok = g.ok, !.err = "IOError"],
                   cacheMemo |-> g.memo, dbMemo |-> dbMemo,
                   runs |-> RunsAfter(<<"cache", v>>, g),
                   indexDisk |-> g.indexDisk, edgeFile |-> g.edgeFile,
                   mapFile |-> g.mapFile])

---------------------------------------------------------------------------
(* cache.py: a memoized _get_*_cache entered by the threads of one process *)

\* the wrapper of lru_cache looks the key up: a thread that finds the handle
\* returns it, a thread that does not goes on to call the function
ThreadEnter(t, v) ==
    /\ threads[t].pc \in {"idle", "returned"}
    /\ threads' = [threads EXCEPT ![t] =
                     IF cacheMemo[v] # NoHandle
                     THEN [Idle EXCEPT !.pc = "returned", !.v = v, !.handle = cacheMemo[v]]
                     ELSE [Idle EXCEPT !.pc = "missed", !.v = v]]
    /\ last' = [NoCall EXCEPT !.op = "thread.enter", !.arg = v, !.vocab = v,
                    !.hit = (cacheMemo[v] # NoHandle)]
    /\ UNCHANGED <<rawMeta, rawCit, mapFile, edgeFile, indexDisk, accMemo, cacheMemo,
                   dbMemo, runs, gen, frames>>

\* the body tests whether the index is on disk
ThreadTest(t) ==
    /\ threads[t].pc = "missed"
    /\ threads' = [threads EXCEPT ![t].pc = "tested",
                                  ![t].found = indexDisk[cache_exists_path(threads[t].v)].exists]
    /\ last' = [NoCall EXCEPT !.op = "thread.test", !.arg = threads[t].v,
                    !.vocab = threads[t].v, !.tested = {cache_exists_path(threads[t].v)}]
    /\ UNCHANGED <<rawMeta, rawCit, mapFile, edgeFile, indexDisk, accMemo, cacheMemo,
                   dbMemo, runs, gen, frames>>

\* what the body does after its test: build_graph_cache or GraphCache
thread_body(v, found) ==
    IF ~found
    THEN build_graph_cache(<<"cache", v>>, cache_exists_path(v), cache_stream(v), v,
                           EdgeStream(cache_stream(v), FALSE))
    ELSE GraphCache(<<"cache", v>>, cache_exists_path(v), v)

\* the body builds the index, or opens the one it found
ThreadRun(t) ==
    /\ threads[t].pc = "tested"
    /\ \E b \in {thread_body(threads[t].v, threads[t].found)} :
        /\ b.ok
        /\ threads' = [threads EXCEPT ![t].pc = "ran", ![t].body = b.handle,
                                      ![t].built = ~threads[t].found]
        /\ indexDisk' = b.indexDisk
        /\ edgeFile' = b.edgeFile
        /\ mapFile' = b.mapFile
        /\ runs' = [runs EXCEPT ![<<"cache", threads[t].v>>] = @ + 1]
        /\ last' = [NoCall EXCEPT !.op = "thread.run", !.arg = threads[t].v,
                        !.vocab = threads[t].v, !.handle = b.handle,
                        !.built = b.built, !.opened = b.opened, !.extracted = b.extracted]
    /\ UNCHANGED <<rawMeta, rawCit, accMemo, cacheMemo, dbMemo, gen, frames>>

\* the wrapper stores the result unless the key has been added meanwhile, and
\* returns the result of its own call either way
ThreadReturn(t) ==
    /\ threads[t].pc = "ran"
    /\ threads' = [threads EXCEPT ![t].pc = "returned", ![t].handle = threads[t].body]
    /\ cacheMemo' = IF cacheMemo[threads[t].v] = NoHandle
                     THEN memo_store(cacheMemo, threads[t].v, threads[t].body)
                     ELSE cacheMemo
    /\ last' = [NoCall EXCEPT !.op = "thread.return", !.arg = threads[t].v,
                    !.vocab = threads[t].v, !.handle = threads[t].body]
    /\ UNCHANGED <<rawMeta, rawCit, mapFile, edgeFile, indexDisk, accMemo, dbMemo, runs, gen,
                   frames>>

---------------------------------------------------------------------------
(* db.py *)

\* the index location whose existence db.py's _get_{v}_cache tests
db_exists_path(v) ==
    CASE v = "pmid" -> "pmid"
      [] v = "omid" -> "omid"
      [] v = "doi" -> "omid"

\* the edge stream db.py's _get_{v}_cache hands to build_graph_cache
db_stream(v) ==
    CASE v = "pmid" -> "pmid"
      [] v = "omid" -> "omid"
      [] v = "doi" -> "omid"

\* db.py's _get_pubmed_cache / _get_omid_cache / _get_doi_cache
db_get(v) ==
    memoized(dbMemo, v, build_or_open(<<"db", v>>, db_exists_path(v), db_stream(v), v))

\* the match on reference.prefix: the db.py cache that answers, or unsupported
db_dispatch(prefix) ==
    CASE prefix \in {"pmid", "pubmed"} -> "pmid"
      [] prefix = "omid" -> "omid"
      [] prefix = "doi" -> "omid"
      [] OTHER -> "unsupported"

\* db.py's get_outgoing_citations (dir = "out") / get_incoming_citations ("in")
db_query(dir, prefix, identifier) ==
    LET call == [NoCall EXCEPT !.op = IF dir = "out" THEN "db.out" ELSE "db.in",
                               !.arg = prefix, !.ident = identifier, !.rtype = "str"]
        v == db_dispatch(prefix)
    IN  IF v = "unsupported" THEN Untouched(Fails(call, "NotImplementedError"))
        ELSE answer("db", call, dir, "str", prefix, identifier, v, db_get(v))

DbQuery(dir, prefix, identifier) ==
    \E q \in {db_query(dir, prefix, identifier)} : Apply(q)

\* db.py's _get_{v}_cache() called directly
DbWarm(v) ==
    \E g \in {db_get(v)} :
        Apply([call |-> [Resolved([NoCall EXCEPT !.op = "db.warm", !.arg = v], g) EXCEPT
                            !.vocab = v, !.ok = g.ok,
                            !.err = IF g.ok THEN "none" ELSE "BuildError"],
               cacheMemo |-> cacheMemo, dbMemo |-> g.memo,
               runs |-> RunsAfter(<<"db", v>>, g),
               indexDisk |-> g.indexDisk, edgeFile |-> g.edgeFile, mapFile |-> g.mapFile])

---------------------------------------------------------------------------
(* models.py / api.py: a citation record *)

\* _bool(s): False for "no", True for "yes", ValueError otherwise
bool_of(s) ==
    CASE s = "no" -> [ok |-> TRUE, value |-> FALSE]
      [] s = "yes" -> [ok |-> TRUE, value |-> TRUE]
      [] OTHER -> [ok |-> FALSE, value |-> FALSE]

\* _process_curies(s): one Reference (prefix, identifier) per token of s
process_curies(s) ==
    [i \in 1..Len(split(s)) |->
        <<partition(split(s)[i], ":")[1], partition(split(s)[i], ":")[3]>>]

\* the record once the popped columns are replaced: the keys it has
processed(record) ==
    [reference |-> <<"oci", record.oci>>,
     journal_self_citation |-> bool_of(record.journal_sc).value,
     author_self_citation |-> bool_of(record.author_sc).value,
     citing |-> process_curies(record.citing),
     cited |-> process_curies(record.cited),
     creation |-> record.creation,
     timespan |-> record.timespan]

\* {k: v for k, v in record.items() if v}: the keys that are kept, those
\* whose value is true under bool(v)
kept(d) ==
    {k \in DOMAIN d :
        CASE k \in {"journal_self_citation", "author_self_citation"} -> d[k]
          [] k \in {"citing", "cited"} -> d[k] # <<>>
          [] k = "reference" -> TRUE
          [] OTHER -> d[k] # ""}

\* Citation.model_validate(d restricted to keys): a field that is not given
\* takes its default, None; a bool | None field is kept as Python prints it
model_validate(d, keys) ==
    [reference |-> d.reference, citing |-> d.citing, cited |-> d.cited,
     creation |-> IF "creation" \notin keys THEN "None" ELSE d.creation,
     timespan |-> IF "timespan" \notin keys THEN "None" ELSE d.timespan,
     journal_self_citation |->
        IF "journal_self_citation" \notin keys THEN "None"
        ELSE IF d.journal_self_citation THEN "True" ELSE "False",
     author_self_citation |->
        IF "author_self_citation" \notin keys THEN "None"
        ELSE IF d.author_self_citation THEN "True" ELSE "False"]

\* process_citation(record) of models.py, _process(record) of api.py
process_citation(record) ==
    IF ~bool_of(record.journal_sc).ok \/ ~bool_of(record.author_sc).ok
    THEN [ok |-> FALSE, err |-> "ValueError", value |-> <<>>]
    ELSE IF {"citing", "cited"} \subseteq kept(processed(record))
         THEN [ok |-> TRUE, err |-> "none",
               value |-> model_validate(processed(record), kept(processed(record)))]
         ELSE [ok |-> FALSE, err |-> "ValidationError", value |-> <<>>]

ProcessCitation(record) ==
    \E r \in {process_citation(record)} :
        /\ last' = [NoCall EXCEPT !.op = "process_citation", !.ident = record,
                        !.ok = r.ok, !.err = r.err, !.value = r.value]
        /\ UNCHANGED <<rawMeta, rawCit, mapFile, edgeFile, indexDisk, accMemo, cacheMemo,
                       dbMemo, runs, gen, threads, frames>>

---------------------------------------------------------------------------
(* models.py: Work.omid *)

\* work.omid is read: the property body is entered
WorkOmid(references) ==
    /\ frames.pc = "idle"
    /\ frames' = [pc |-> "scan", references |-> references, depth |-> 1, i |-> 1]
    /\ last' = [NoCall EXCEPT !.op = "work.omid", !.ident = references, !.err = "running"]
    /\ UNCHANGED <<rawMeta, rawCit, mapFile, edgeFile, indexDisk, accMemo, cacheMemo,
                   dbMemo, runs, gen, threads>>

\* one iteration of get_reference_with_prefix(self.references, "omid") in the
\* innermost evaluation: the loop is exhausted, or the reference at i has the
\* prefix, or the loop goes on; a reference that is found is returned by the
\* outermost evaluation, and makes the message of the ValueError of the one
\* below an inner evaluation
WorkScan ==
    /\ frames.pc = "scan"
    /\ \E step \in {IF frames.i > Len(frames.references) THEN "exhausted"
                   ELSE IF frames.references[frames.i][1] = "omid" THEN "found"
                   ELSE "next"} :
        CASE step = "next" ->
                /\ frames' = [frames EXCEPT !.i = frames.i + 1]
                /\ UNCHANGED last
          [] step = "exhausted" ->
                /\ frames' = [frames EXCEPT !.pc = "raise"]
                /\ UNCHANGED last
          [] step = "found" ->
                /\ frames' = NoFrames
                /\ last' = IF frames.depth = 1
                           THEN [last EXCEPT !.ok = TRUE, !.err = "none",
                                             !.value = frames.references[frames.i][2]]
                           ELSE [last EXCEPT !.ok = FALSE, !.err = "ValueError"]
    /\ UNCHANGED <<rawMeta, rawCit, mapFile, edgeFile, indexDisk, accMemo, cacheMemo,
                   dbMemo, runs, gen, threads>>

\* raise ValueError(f"invalid omid: {self.omid}"): the message is formatted
\* first, which reads self.omid again; at the recursion limit the interpreter
\* raises RecursionError, which no frame catches
WorkRaise ==
    /\ frames.pc = "raise"
    /\ IF frames.depth < RecursionLimit
       THEN /\ frames' = [frames EXCEPT !.pc = "scan", !.depth = frames.depth + 1, !.i = 1]
            /\ UNCHANGED last
       ELSE /\ frames' = NoFrames
            /\ last' = [last EXCEPT !.ok = FALSE, !.err = "RecursionError"]
    /\ UNCHANGED <<rawMeta, rawCit, mapFile, edgeFile, indexDisk, accMemo, cacheMemo,
                   dbMemo, runs, gen, threads>>

\* the process ends and a new one starts: every memo is gone, the disk stays
Restart ==
    /\ accMemo' = [f \in Accessors \cup Inverses |-> NoEntry]
    /\ cacheMemo' = [v \in Vocabularies |-> NoHandle]
    /\ dbMemo' = [v \in Vocabularies |-> NoHandle]
    /\ runs' = [f \in DOMAIN runs |-> 0]
    /\ gen' = NoGen
    /\ threads' = [t \in Threads |-> Idle]
    /\ frames' = NoFrames
    /\ last' = [NoCall EXCEPT !.op = "restart"]
    /\ UNCHANGED <<rawMeta, rawCit, mapFile, edgeFile, indexDisk, frames>>

---------------------------------------------------------------------------
(* Inputs *)

Tok(prefix, identifier) == StrOf[prefix] \o <<":">> \o identifier
Join2(a, b) == a \o <<" ">> \o b
Join3(a, b, c) == a \o <<" ">> \o b \o <<" ">> \o c

\* the `id` columns the metadata archive is drawn from
Bundles ==
    {Join3(Tok("omid", BR \o <<"1">>), Tok("pmid", <<"7">>), Tok("doi", <<"x">>)),
     Join2(Tok("omid", BR \o <<"2">>), Tok("pmid", <<"8">>)),
     Join2(Tok("omid", BR \o <<"1">>), Tok("pmid", <<"8">>)),
     Tok("doi", <<"y">>),
     Join3(Tok("omid", BR \o <<"2">>), Tok("pmid", <<>>), Tok("doi", <<"y">>)),
     Join3(Tok("omid", BR \o <<"2">>), Tok("doi", <<"x">>), Tok("doi", <<"y">>))}

EmptyDisk ==
    /\ mapFile = [p \in ExternalPrefixes |-> NoFileAt]
    /\ edgeFile = [v \in Vocabularies |-> NoFileAt]
    /\ indexDisk = [v \in Vocabularies |-> NoFileAt]

FreshProcess ==
    /\ accMemo = [f \in Accessors \cup Inverses |-> NoEntry]
    /\ cacheMemo = [v \in Vocabularies |-> NoHandle]
    /\ dbMemo = [v \in Vocabularies |-> NoHandle]
    /\ runs = [f \in {"cache", "db"} \X Vocabularies |-> 0]
    /\ gen = NoGen
    /\ threads = [t \in Threads |-> Idle]
    /\ frames = NoFrames
    /\ last = NoCall

\* the native local identifiers the citation archive is drawn from
LocalIds == {<<"1">>, <<"2">>, <<"3">>}

\* a row of the citation archive: oci:LEFT-RIGHT
Row(left, right) == <<"o", "c", "i", ":">> \o left \o <<"-">> \o right

CitRows == {Row(<<"1">>, <<"2">>), Row(<<"2">>, <<"1">>), Row(<<"1">>, <<"3">>)}

\* the bundles behind the maps the extractor translates with: 1 -> 7 or 8, 2 -> 8
ExtractBundles ==
    {Join3(Tok("omid", BR \o <<"1">>), Tok("pmid", <<"7">>), Tok("doi", <<"x">>)),
     Join3(Tok("omid", BR \o <<"2">>), Tok("pmid", <<"8">>), Tok("doi", <<"y">>)),
     Join2(Tok("omid", BR \o <<"1">>), Tok("pmid", <<"8">>))}

---------------------------------------------------------------------------
(* The translator, called directly *)

InitTranslate ==
    /\ rawMeta \in BoundedSeq(Bundles, MaxBundles)
    /\ rawCit = <<>>
    /\ EmptyDisk
    /\ FreshProcess

NextTranslate ==
    \/ \E prefix \in ExternalPrefixes, force \in BOOLEAN : Translate(prefix, force)
    \/ Restart

SpecTranslate == InitTranslate /\ [][NextTranslate]_vars

---------------------------------------------------------------------------
(* The translator over a map artifact that something else left behind *)

\* files found at omid_to_{prefix}.tsv.gz that no completed scan wrote: empty,
\* without the header row, with a header of one column, with a data row of
\* one or of three columns; and one that is in order
FoundMaps(prefix) ==
    {FileOf(<<>>),
     FileOf(<< <<BR \o <<"1">>, <<"7">> >>, <<BR \o <<"2">>, <<"8">> >> >>),
     FileOf(<< <<StrOf.omid>>, <<BR \o <<"1">>, <<"7">> >> >>),
     FileOf(<< MapHeader(prefix), <<BR \o <<"1">> >> >>),
     FileOf(<< MapHeader(prefix), <<BR \o <<"1">>, <<"7">> >>,
               <<BR \o <<"2">>, <<"8">>, <<"x">> >> >>),
     FileOf(<< MapHeader(prefix), <<BR \o <<"1">>, <<"7">> >> >>)}

InitFound ==
    /\ rawMeta \in BoundedSeq(ExtractBundles, MaxBundles)
    /\ rawCit = <<>>
    /\ mapFile \in [ExternalPrefixes -> {NoFileAt}]
                    \cup UNION {{[p \in ExternalPrefixes |-> IF p = q THEN f ELSE NoFileAt] :
                                    f \in FoundMaps(q)} : q \in ExternalPrefixes}
    /\ edgeFile = [v \in Vocabularies |-> NoFileAt]
    /\ indexDisk = [v \in Vocabularies |-> NoFileAt]
    /\ FreshProcess

NextFound ==
    \E prefix \in ExternalPrefixes, force \in BOOLEAN : Translate(prefix, force)

SpecFound == InitFound /\ [][NextFound]_vars

---------------------------------------------------------------------------
(* The translator over records whose tokens may lack a local value *)

\* an `id` column: its tokens separated by one space
RECURSIVE JoinAll(_)
JoinAll(tokens) ==
    IF tokens = <<>> THEN <<>>
    ELSE IF Len(tokens) = 1 THEN tokens[1]
    ELSE tokens[1] \o <<" ">> \o JoinAll(Tail(tokens))

\* the tokens an `id` column is made of: well-formed ones, two that end at the
\* separator and one without a separator
InitTokens ==
    /\ rawMeta \in {<<JoinAll(tokens)>> :
                        tokens \in BoundedSeq({Tok("omid", BR \o <<"1">>), Tok("pmid", <<"7">>),
                                               Tok("doi", <<"x">>), Tok("omid", <<>>),
                                               Tok("pmid", <<>>), StrOf.isbn}, MaxTokens)}
    /\ rawCit = <<>>
    /\ EmptyDisk
    /\ FreshProcess

SpecTokens == InitTokens /\ [][NextFound]_vars

---------------------------------------------------------------------------
(* The translator behind its memoized accessors *)

InitAccessors ==
    /\ rawMeta \in BoundedSeq(Bundles, MaxAccessorBundles)
    /\ rawCit = <<>>
    /\ EmptyDisk
    /\ FreshProcess

NextAccessors ==
    \/ \E prefix \in ExternalPrefixes, force \in BOOLEAN : Translate(prefix, force)
    \/ \E f \in Accessors, key \in CallKeys : Accessor(f, key)
    \/ Restart

SpecAccessors == InitAccessors /\ [][NextAccessors]_vars

---------------------------------------------------------------------------
(* The lookups between OMID and PubMed identifiers *)

\* records that give 1 and 2 the same PubMed identifier, and 2 a second one
InitLookup ==
    /\ rawMeta \in BoundedSeq({Join2(Tok("omid", BR \o <<"1">>), Tok("pmid", <<"7">>)),
                               Join2(Tok("omid", BR \o <<"2">>), Tok("pmid", <<"7">>)),
                               Join2(Tok("omid", BR \o <<"2">>), Tok("pmid", <<"8">>))},
                              MaxLookupBundles)
    /\ rawCit = <<>>
    /\ EmptyDisk
    /\ FreshProcess

NextLookup ==
    \/ \E module \in {"download", "client"}, pubmed \in {<<"7">>, <<"8">>, <<"9">>} :
            \/ Lookup("get_omid_from_pubmed", module, pubmed)
            \/ Lookup("round_trip", module, pubmed)
    \/ \E module \in {"download", "client"},
          omid \in {BR \o <<"1">>, BR \o <<"2">>, BR \o <<"3">>} :
            Lookup("get_pubmed_from_omid", module, omid)
    \/ \E module \in {"download", "client"} : Accessor(forward_of(module), "force_process=True")
    \/ \E k \in 0..Len(rawMeta) : TranslateInterrupted("pmid", FALSE, k)
    \/ Restart

SpecLookup == InitLookup /\ [][NextLookup]_vars

---------------------------------------------------------------------------
(* Citation records *)

\* models.py reads no file and keeps no state between calls
InitCitation ==
    /\ rawMeta = <<>>
    /\ rawCit = <<>>
    /\ EmptyDisk
    /\ FreshProcess

\* the columns of a citation record as the API and the archives give them
NextCitation ==
    \E record \in [oci : {"1-2", "2-1"},
                   journal_sc : {"yes", "no", "", "maybe"},
                   author_sc : {"yes", "no", "", "maybe"},
                   citing : {Tok("omid", BR \o <<"1">>)},
                   cited : {Tok("omid", BR \o <<"2">>)},
                   creation : {"", "2020", "2020-01-01"},
                   timespan : {"", "P1Y"}] :
        ProcessCitation(record)

SpecCitation == InitCitation /\ [][NextCitation]_vars

---------------------------------------------------------------------------
(* Work.omid over the references of a Work *)

NextWork ==
    \/ \E references \in BoundedSeq({<<"omid", BR \o <<"1">> >>, <<"omid", BR \o <<"2">> >>,
                                     <<"pmid", <<"7">> >>, <<"doi", <<"x">> >>},
                                    MaxReferences) :
            WorkOmid(references)
    \/ WorkScan
    \/ WorkRaise

\* the interpreter goes on with an evaluation it has entered
SpecWork == InitCitation /\ [][NextWork]_vars /\ WF_vars(WorkScan) /\ WF_vars(WorkRaise)

---------------------------------------------------------------------------
(* The edge extractor, called directly *)

InitExtract ==
    /\ rawMeta \in BoundedSeq(ExtractBundles, MaxBundles)
    /\ rawCit \in BoundedSeq(CitRows, MaxRows)
    /\ EmptyDisk
    /\ FreshProcess

NextExtract ==
    \E v \in Vocabularies, force \in BOOLEAN : Extract(v, force)

SpecExtract == InitExtract /\ [][NextExtract]_vars

---------------------------------------------------------------------------
(* The edge extractor over citation rows of every shape *)

\* native local identifiers without a hyphen; one starts with a letter of "oci:"
RowIds == {<<"1">>, <<"2">>, <<"c", "1">>}

\* a row without the prefix: LEFT-RIGHT
Bare(left, right) == left \o <<"-">> \o right

\* the first column of a citation row: oci:LEFT-RIGHT and LEFT-RIGHT over the
\* identifiers, rows with an empty left or right part, and a row without a hyphen
\* under a metadata archive that gives every identifier of RowIds a PubMed
\* identifier
InitShaped ==
    /\ rawMeta = <<Join2(Tok("omid", BR \o <<"1">>), Tok("pmid", <<"7">>)),
                   Join2(Tok("omid", BR \o <<"2">>), Tok("pmid", <<"8">>)),
                   Join2(Tok("omid", BR \o <<"c", "1">>), Tok("pmid", <<"9">>))>>
    /\ rawCit \in BoundedSeq({Row(<<"1">>, <<"2">>), Row(<<"c", "1">>, <<"2">>),
                              Row(<<"2">>, <<"c", "1">>), Bare(<<"1">>, <<"2">>),
                              Bare(<<"c", "1">>, <<"2">>), Row(<<>>, <<"2">>),
                              Row(<<"1">>, <<>>), <<"o", "c", "i", ":", "1">>},
                             MaxShapedRows)
    /\ EmptyDisk
    /\ FreshProcess

\* one external vocabulary and the native one: doi goes the way of pmid
NextShaped ==
    \E v \in {"pmid", "omid"}, force \in BOOLEAN : Extract(v, force)

SpecShaped == InitShaped /\ [][NextShaped]_vars

---------------------------------------------------------------------------
(* The translator and the extractor under a metadata archive that grows *)

\* ensure_metadata_csv() finds a later release of the archive: it holds the
\* records of the earlier one and one more
ArchiveExtended(bundle) ==
    /\ Len(rawMeta) < MaxArchive
    /\ rawMeta' = Append(rawMeta, bundle)
    /\ last' = [NoCall EXCEPT !.op = "archive"]
    /\ UNCHANGED <<rawCit, mapFile, edgeFile, indexDisk, accMemo, cacheMemo, dbMemo, runs,
                   gen, threads, frames>>

InitRebuild ==
    /\ rawMeta = <<Join2(Tok("omid", BR \o <<"1">>), Tok("pmid", <<"7">>))>>
    /\ rawCit \in BoundedSeq(CitRows, MaxRebuildRows)
    /\ EmptyDisk
    /\ FreshProcess

\* one external vocabulary and the native one: doi goes the way of pmid
NextRebuild ==
    \/ \E bundle \in {Join2(Tok("omid", BR \o <<"2">>), Tok("pmid", <<"8">>)),
                       Join2(Tok("omid", BR \o <<"3">>), Tok("pmid", <<"9">>))} :
            ArchiveExtended(bundle)
    \/ \E force \in BOOLEAN : Translate("pmid", force)
    \/ \E v \in {"pmid", "omid"}, force \in BOOLEAN : Extract(v, force)
    \/ CacheWarm("pmid")
    \/ Restart

SpecRebuild == InitRebuild /\ [][NextRebuild]_vars

---------------------------------------------------------------------------
(* The edge streams as generators, one caller after another *)

\* a metadata archive that gives 1 and 2 a PubMed identifier and 1 a DOI
InitStream ==
    /\ rawMeta = <<Join3(Tok("omid", BR \o <<"1">>), Tok("pmid", <<"7">>),
                         Tok("doi", <<"x">>)),
                   Join2(Tok("omid", BR \o <<"2">>), Tok("pmid", <<"8">>))>>
    /\ rawCit \in BoundedSeq({Row(<<"1">>, <<"2">>), Row(<<"1">>, <<"3">>),
                              Row(<<"1">>, <<"1">>)}, MaxRows)
    /\ EmptyDisk
    /\ FreshProcess

NextStream ==
    \/ \E v \in Vocabularies, force \in BOOLEAN : GenCall(v, force)
    \/ GenNext
    \/ GenClose

SpecStream == InitStream /\ [][NextStream]_vars

---------------------------------------------------------------------------
(* The translator and the extractor over archives that may fail *)

\* one external vocabulary and the native one: doi goes the way of pmid
NextInterrupt ==
    \/ \E force \in BOOLEAN : Translate("pmid", force)
    \/ \E force \in BOOLEAN, k \in 0..Len(rawMeta) : TranslateInterrupted("pmid", force, k)
    \/ \E v \in {"pmid", "omid"}, force \in BOOLEAN : Extract(v, force)
    \/ \E v \in {"pmid", "omid"}, force \in BOOLEAN, k \in 0..Len(rawCit) :
            ExtractInterrupted(v, force, k)

SpecInterrupt == InitStream /\ [][NextInterrupt]_vars

---------------------------------------------------------------------------
(* The graph caches of cache.py over one process after another *)

\* a metadata archive that gives 1 and 2 an identifier in every vocabulary
CacheMeta ==
    <<Join3(Tok("omid", BR \o <<"1">>), Tok("pmid", <<"7">>), Tok("doi", <<"x">>)),
      Join3(Tok("omid", BR \o <<"2">>), Tok("pmid", <<"8">>), Tok("doi", <<"y">>))>>

QueryPrefixes == {"doi", "pubmed", "omid", "pmid", "isbn"}
Directions == {"out", "in"}

InitCache ==
    /\ rawMeta = CacheMeta
    /\ rawCit \in BoundedSeq(CitRows, MaxCacheRows)
    /\ EmptyDisk
    /\ FreshProcess

NextCache ==
    \/ \E dir \in Directions, prefix \in QueryPrefixes, rtype \in {"reference", "str", "citation"} :
            CacheQuery(dir, prefix, BR \o <<"1">>, rtype)
    \/ \E v \in Vocabularies : CacheWarm(v)
    \/ Restart

SpecCache == InitCache /\ [][NextCache]_vars

---------------------------------------------------------------------------
(* The graph caches of cache.py over builds that raise, within one process *)

InitFail ==
    /\ rawMeta = CacheMeta
    /\ rawCit \in BoundedSeq(CitRows, MaxFailRows)
    /\ mapFile \in {[p \in ExternalPrefixes |-> IF p = "pmid" THEN f ELSE NoFileAt] :
                        f \in {NoFileAt} \cup FoundMaps("pmid")}
    /\ edgeFile = [v \in Vocabularies |-> NoFileAt]
    /\ indexDisk = [v \in Vocabularies |-> NoFileAt]
    /\ FreshProcess

\* one external vocabulary and the native one: doi goes the way of pmid
NextFail ==
    \/ \E v \in {"pmid", "omid"} : CacheWarm(v)
    \/ \E v \in {"pmid", "omid"}, k \in 0..Len(rawCit) : CacheWarmInterrupted(v, k)
    \/ \E dir \in Directions : CacheQuery(dir, "omid", BR \o <<"1">>, "str")
    \/ Translate("pmid", TRUE)

SpecFail == InitFail /\ [][NextFail]_vars

---------------------------------------------------------------------------
(* Two threads of one process at the graph caches of cache.py *)

NextThreads ==
    \/ \E t \in Threads, v \in Vocabularies : ThreadEnter(t, v)
    \/ \E t \in Threads : ThreadTest(t)
    \/ \E t \in Threads : ThreadRun(t)
    \/ \E t \in Threads : ThreadReturn(t)

SpecThreads == InitCache /\ [][NextThreads]_vars

---------------------------------------------------------------------------
(* The queries of cache.py within one process *)

InitGraph ==
    /\ rawMeta = CacheMeta
    /\ rawCit \in BoundedSeq(CitRows, MaxRows)
    /\ EmptyDisk
    /\ FreshProcess

NextGraph ==
    \E dir \in Directions, prefix \in CITATION_PREFIXES,
       identifier \in {BR \o <<"1">>, <<"7">>, <<"x">>},
       rtype \in {"reference", "str"} :
        CacheQuery(dir, prefix, identifier, rtype)

SpecGraph == InitGraph /\ [][NextGraph]_vars

---------------------------------------------------------------------------
(* cache.py and db.py side by side on one disk *)

InitDb ==
    /\ rawMeta = CacheMeta
    /\ rawCit \in BoundedSeq(CitRows, MaxDbRows)
    /\ EmptyDisk
    /\ FreshProcess

NextDb ==
    \/ \E dir \in Directions, prefix \in CITATION_PREFIXES :
            CacheQuery(dir, prefix, BR \o <<"1">>, "reference")
    \/ \E dir \in Directions, prefix \in QueryPrefixes :
            DbQuery(dir, prefix, BR \o <<"1">>)
    \/ \E v \in Vocabularies : CacheWarm(v)
    \/ \E v \in Vocabularies : DbWarm(v)
    \/ Restart

SpecDb == InitDb /\ [][NextDb]_vars

---------------------------------------------------------------------------
(* Properties of the translator *)

\* rows i < j of a persisted map that carry the same native identifier
HasRepeatedKey(file) ==
    \E i, j \in 2..Len(file.rows) : i < j /\ file.rows[i][1] = file.rows[j][1]

\* C9: a second call of the translator for the same vocabulary, both without
\* force_process, leaves the persisted map as it was, does not scan the raw
\* metadata archive and returns a dict equal to the first call's
C9_TranslatorIdempotent ==
    [][(/\ last.op = "translate" /\ ~last.force /\ last.ok
        /\ last'.op = "translate" /\ ~last'.force /\ last'.arg = last.arg)
       => (/\ last'.ok
           /\ mapFile' = mapFile
           /\ last'.scannedMeta = {}
           /\ last'.value = last.value)]_vars

\* C9 witness: an unforced call answered from a persisted map whose scan had
\* emitted one native identifier twice
C9_Witness ==
    /\ last.op = "translate" /\ ~last.force /\ last.ok
    /\ last.scannedMeta = {}
    /\ HasRepeatedKey(mapFile[last.arg])
    /\ Cardinality(DOMAIN last.value) >= 1

\* C10: every call with force_process=True, made directly or through a
\* memoized accessor, scans the raw metadata archive and rewrites the map
C10_ForcedCallRescans ==
    (last.force /\ last.op \in Accessors \cup {"translate"})
        => (last.arg \in last.scannedMeta /\ last.arg \in last.wroteMap)

\* the identifiers a bundle carries in vocabulary p, in the order of its tokens
IdsIn(curies, p) ==
    LET tokens == split(curies)
        head == StrOf[p] \o <<":">>
        carrying == SelectSeq(tokens, LAMBDA t : /\ Len(t) > Len(head)
                                                 /\ SubSeq(t, 1, Len(head)) = head)
    IN  [i \in 1..Len(carrying) |-> SubSeq(carrying[i], Len(head) + 1, Len(carrying[i]))]

\* the identifier a bundle gives for vocabulary p: its last one, None without
LastIn(curies, p) ==
    IF IdsIn(curies, p) = <<>> THEN None ELSE IdsIn(curies, p)[Len(IdsIn(curies, p))]

\* the bundles of the metadata archive that carry a native identifier
WithNative == SelectSeq(rawMeta, LAMBDA b : LastIn(b, "omid") # None)

\* the bundles that carry a native identifier and one of vocabulary p
Yielding(p) ==
    SelectSeq(rawMeta, LAMBDA b : LastIn(b, "omid") # None /\ LastIn(b, p) # None)

\* C11: a scan skips a bundle without a native identifier: the call succeeds,
\* the map and the artifact are those of the archive with such bundles left
\* out, and every row comes from a bundle that has a native identifier
C11_BundleWithoutNativeIsSkipped ==
    (last.op = "translate" /\ last.arg \in last.scannedMeta)
        => /\ last.ok
           /\ last.value = DictOfRows(iter_omid_to_external_identifier(last.arg, WithNative))
           /\ mapFile[last.arg].rows
                = <<MapHeader(last.arg)>> \o iter_omid_to_external_identifier(last.arg, WithNative)
           /\ \A n \in DOMAIN last.value :
                \E i \in 1..Len(rawMeta) : LastIn(rawMeta[i], "omid") = n
           /\ \A j \in 2..Len(mapFile[last.arg].rows) :
                \E i \in 1..Len(rawMeta) :
                    /\ LastIn(rawMeta[i], "omid") = mapFile[last.arg].rows[j][1]
                    /\ LastIn(rawMeta[i], last.arg) = mapFile[last.arg].rows[j][2]

\* C11 witness: a scan met a bundle that has a doi and no native identifier,
\* then a bundle it mapped
C11_Witness ==
    /\ last.op = "translate" /\ last.arg = "doi" /\ "doi" \in last.scannedMeta
    /\ Len(rawMeta) = 2
    /\ LastIn(rawMeta[1], "omid") = None /\ LastIn(rawMeta[1], "doi") # None
    /\ last.value # EmptyDict

\* a token without a local value: no separator, or nothing after the first one
Malformed(token) == Find(token, ":") = 0 \/ Find(token, ":") = Len(token)

\* an `id` column without its malformed tokens
WellFormedOnly(curies) ==
    JoinAll(SelectSeq(split(curies), LAMBDA t : ~Malformed(t)))

\* the metadata archive without the malformed tokens of its records
WithoutMalformed == [i \in 1..Len(rawMeta) |-> WellFormedOnly(rawMeta[i])]

\* C21: a token without a local value is ignored on its own: a scan returns the
\* map and writes the artifact of the archive with those tokens left out, and
\* a bundle with a well-formed native token and a well-formed token of the
\* requested vocabulary gives the row of its (native, external) pair
C21_MalformedTokenIgnoredAlone ==
    (last.op = "translate" /\ last.arg \in last.scannedMeta)
        => /\ last.ok
           /\ last.value
                = DictOfRows(iter_omid_to_external_identifier(last.arg, WithoutMalformed))
           /\ mapFile[last.arg].rows
                = <<MapHeader(last.arg)>>
                    \o iter_omid_to_external_identifier(last.arg, WithoutMalformed)
           /\ \A i \in 1..Len(rawMeta) :
                (LastIn(rawMeta[i], "omid") # None /\ LastIn(rawMeta[i], last.arg) # None)
                    => \E j \in 2..Len(mapFile[last.arg].rows) :
                         mapFile[last.arg].rows[j]
                            = <<LastIn(rawMeta[i], "omid"), LastIn(rawMeta[i], last.arg)>>

\* C21 witness: a scan mapped a bundle that has a token without a local value
\* next to its native token and its token of the requested vocabulary
C21_Witness ==
    /\ last.op = "translate" /\ last.arg \in last.scannedMeta
    /\ Len(rawMeta) = 1
    /\ \E k \in 1..Len(split(rawMeta[1])) : Malformed(split(rawMeta[1])[k])
    /\ last.value # EmptyDict

\* the positions of the bundles that carry native identifier n and an
\* identifier of vocabulary p
CarriersOf(n, p) ==
    {i \in 1..Len(rawMeta) : LastIn(rawMeta[i], "omid") = n /\ LastIn(rawMeta[i], p) # None}

Max(S) == CHOOSE x \in S : \A y \in S : y <= x

NativeIds == {LastIn(rawMeta[i], "omid") : i \in 1..Len(rawMeta)} \ {None}

\* C19: the map of a call holds, for every native identifier, the identifier
\* of the last bundle that carries it together with one of the vocabulary, and
\* nothing for a native identifier without such a bundle; the artifact reads
\* back to the same map
C19_LastWriteWins ==
    (last.op = "translate" /\ last.ok)
        => /\ \A n \in NativeIds \cup DOMAIN last.value :
                IF CarriersOf(n, last.arg) = {}
                THEN n \notin DOMAIN last.value
                ELSE /\ n \in DOMAIN last.value
                     /\ last.value[n] = LastIn(rawMeta[Max(CarriersOf(n, last.arg))], last.arg)
           /\ ReadMap(mapFile[last.arg]).ok
           /\ ReadMap(mapFile[last.arg]).rv = last.value

\* C19 witness: a scan met one native identifier in two bundles with two
\* different identifiers of the vocabulary
C19_Witness ==
    /\ last.op = "translate" /\ last.arg \in last.scannedMeta
    /\ Len(rawMeta) = 2
    /\ LastIn(rawMeta[1], "omid") # None
    /\ LastIn(rawMeta[1], "omid") = LastIn(rawMeta[2], "omid")
    /\ LastIn(rawMeta[1], last.arg) # None /\ LastIn(rawMeta[2], last.arg) # None
    /\ LastIn(rawMeta[1], last.arg) # LastIn(rawMeta[2], last.arg)
    /\ last.value[LastIn(rawMeta[1], "omid")] = LastIn(rawMeta[2], last.arg)

\* the native identifiers of a sequence of rows in the order they first occur
RECURSIVE FirstOccurrences(_)
FirstOccurrences(keys) ==
    IF keys = <<>> THEN <<>>
    ELSE LET n == Len(keys)
             before == FirstOccurrences(SubSeq(keys, 1, n - 1))
         IN  IF \E i \in 1..Len(before) : before[i] = keys[n] THEN before
             ELSE before \o <<keys[n]>>

\* C20 as stated: after a scan the artifact is the header row and then one
\* row per mapped native identifier, in the order of first discovery
C20_OneRowPerIdentifier ==
    (last.op = "translate" /\ last.arg \in last.scannedMeta)
        => LET rows == mapFile[last.arg].rows
               found == FirstOccurrences([i \in 1..Len(Yielding(last.arg)) |->
                                            LastIn(Yielding(last.arg)[i], "omid")])
           IN  /\ rows[1] = MapHeader(last.arg)
               /\ Len(rows) = 1 + Cardinality(DOMAIN last.value)
               /\ [i \in 1..(Len(rows) - 1) |-> rows[i + 1][1]] = found

\* C20 amended: after a scan the artifact is the header row and then one row
\* per bundle that carries a native identifier and one of the vocabulary, in
\* scan order; the native identifiers occur first in discovery order, and one
\* carried by k such bundles has k rows
C20_OneRowPerYieldingBundle ==
    (last.op = "translate" /\ last.arg \in last.scannedMeta)
        => LET rows == mapFile[last.arg].rows
               found == FirstOccurrences([i \in 1..Len(Yielding(last.arg)) |->
                                            LastIn(Yielding(last.arg)[i], "omid")])
           IN  /\ rows[1] = MapHeader(last.arg)
               /\ Tail(rows) = [i \in 1..Len(Yielding(last.arg)) |->
                                   <<LastIn(Yielding(last.arg)[i], "omid"),
                                     LastIn(Yielding(last.arg)[i], last.arg)>>]
               /\ FirstOccurrences([i \in 1..(Len(rows) - 1) |-> rows[i + 1][1]]) = found
               /\ \A n \in DOMAIN last.value :
                    Cardinality({j \in 2..Len(rows) : rows[j][1] = n})
                        = Cardinality(CarriersOf(n, last.arg))

\* C20 witness: a scan wrote two rows for one native identifier
C20_Witness ==
    /\ last.op = "translate" /\ last.arg \in last.scannedMeta
    /\ Len(mapFile[last.arg].rows) = 3
    /\ mapFile[last.arg].rows[2][1] = mapFile[last.arg].rows[3][1]
    /\ mapFile[last.arg].rows[2][2] # mapFile[last.arg].rows[3][2]
    /\ Cardinality(DOMAIN last.value) = 1

\* the map the scan of the metadata archive gives for vocabulary p
ScannedMap(p) ==
    [n \in {m \in NativeIds : CarriersOf(m, p) # {}} |->
        LastIn(rawMeta[Max(CarriersOf(n, p))], p)]

\* C16: get_omid_to_doi returns the translator's map for vocabulary doi: every
\* value is the doi found in the bundle of the key's OMID
C16_OmidToDoiIsTheDoiMap ==
    (last.op \in {"download.get_omid_to_doi", "client.get_omid_to_doi"} /\ last.ok)
        => /\ last.value = ScannedMap("doi")
           /\ \A n \in DOMAIN last.value :
                \E i \in 1..Len(rawMeta) : /\ LastIn(rawMeta[i], "omid") = n
                                            /\ LastIn(rawMeta[i], "doi") = last.value[n]

\* the dict get_omid_to_pubmed() of the module returns in this state
CurrentMap(module) == accessor_call(forward_of(module), "()", accMemo, mapFile).rv

ValuesOf(d) == {d[k] : k \in DOMAIN d}

\* C26: for every value e of the OMID-to-PubMed map,
\* get_pubmed_from_omid(get_omid_from_pubmed(e)) is e; and each lookup
\* returns None, without raising, for an identifier the map does not hold
C26_LookupRoundTrip ==
    /\ (last.op = "round_trip" /\ last.ident \in ValuesOf(CurrentMap(last.arg)))
            => (last.ok /\ last.value = last.ident)
    /\ (last.op = "get_omid_from_pubmed" /\ last.ident \notin ValuesOf(CurrentMap(last.arg)))
            => (last.ok /\ last.value = None)
    /\ (last.op = "get_pubmed_from_omid" /\ last.ident \notin DOMAIN CurrentMap(last.arg))
            => (last.ok /\ last.value = None)

\* a map artifact that is unreadable in header or shape: no header row, or a
\* data row that is not a pair
Unreadable(file, prefix) ==
    \/ file.rows = <<>>
    \/ file.rows[1] # MapHeader(prefix)
    \/ \E i \in 2..Len(file.rows) : Len(file.rows[i]) # 2

\* C17: an unforced call that finds an unreadable map artifact fails, returns
\* no map, leaves the artifact as it is and does not scan; a forced call on
\* the same artifact scans and leaves a readable one
C17_UnreadableMapFails ==
    [][\A p \in ExternalPrefixes :
         (/\ mapFile[p].exists /\ Unreadable(mapFile[p], p)
          /\ last'.op = "translate" /\ last'.arg = p)
            => IF last'.force
               THEN /\ last'.ok /\ p \in last'.scannedMeta
                    /\ ~Unreadable(mapFile'[p], p)
               ELSE /\ ~last'.ok
                    /\ last'.value = EmptyDict
                    /\ mapFile' = mapFile
                    /\ last'.scannedMeta = {}]_vars

---------------------------------------------------------------------------
(* Properties of the edge extractor *)

Range(seq) == {seq[i] : i \in 1..Len(seq)}
Count(x, seq) == Cardinality({i \in 1..Len(seq) : seq[i] = x})
NoRepeat(seq) == \A i, j \in 1..Len(seq) : seq[i] = seq[j] => i = j

\* the native pair that row i of the citation archive was written from
NativePairAt(i) ==
    CHOOSE lr \in LocalIds \X LocalIds : Row(lr[1], lr[2]) = rawCit[i]

\* E: the native edges of the citation archive
NativeEdges == {<<BR \o NativePairAt(i)[1], BR \o NativePairAt(i)[2]>> : i \in 1..Len(rawCit)}

\* M: the identifier map persisted for an external vocabulary
PersistedMap(prefix) == DictOfRows(Tail(mapFile[prefix].rows))

\* {(M[a], M[b]) : (a, b) in E, a in S, b in S}
TranslatedEdges(M) ==
    {<<M[e[1]], M[e[2]]>> : e \in {d \in NativeEdges : d[1] \in DOMAIN M /\ d[2] \in DOMAIN M}}

\* C7: an extraction for an external vocabulary, consumed to the end, yields
\* and persists exactly the edges {(M[a], M[b]) : (a, b) in E, a, b in S}
C7_DropCorrectness ==
    (last.op = "extract" /\ last.arg \in ExternalPrefixes /\ last.ok)
        => /\ mapFile[last.arg].exists
           /\ Range(last.value) = TranslatedEdges(PersistedMap(last.arg))
           /\ Range(edgeFile[last.arg].rows) = TranslatedEdges(PersistedMap(last.arg))

\* C7 witness: an extraction that read the raw archive kept one edge and
\* dropped another for an unmapped endpoint
C7_Witness ==
    /\ last.op = "extract" /\ last.arg \in ExternalPrefixes /\ last.ok
    /\ last.arg \in last.scannedCit
    /\ last.value # <<>>
    /\ \E e \in NativeEdges : e[2] \notin DOMAIN PersistedMap(last.arg)
    /\ \E e \in NativeEdges : e[1] \in DOMAIN PersistedMap(last.arg)
                              /\ e[2] \in DOMAIN PersistedMap(last.arg)

\* the pair row i of the citation archive stands for in vocabulary v, or None
\* when an endpoint has no identifier in v
PairInVocabulary(v, i) ==
    LET a == BR \o NativePairAt(i)[1]
        b == BR \o NativePairAt(i)[2]
    IN  IF v = "omid" THEN <<a, b>>
        ELSE IF a \in DOMAIN PersistedMap(v) /\ b \in DOMAIN PersistedMap(v)
             THEN <<PersistedMap(v)[a], PersistedMap(v)[b]>>
             ELSE None

\* C8 as stated: no pair occurs twice in the yielded sequence or in the
\* persisted edge stream
C8_StreamHasNoRepeatedPair ==
    (last.op = "extract" /\ last.ok)
        => NoRepeat(last.value) /\ NoRepeat(edgeFile[last.arg].rows)

\* C8 amended: the stream holds one entry per raw row that has a pair in the
\* vocabulary, so a pair occurs as often as raw rows stand for it, and the
\* stream is free of repeats when those rows stand for distinct pairs
C8_OneEntryPerRow ==
    (last.op = "extract" /\ last.ok)
        => /\ \A p \in (Range(last.value)
                        \cup {PairInVocabulary(last.arg, i) : i \in 1..Len(rawCit)}) \ {None} :
                /\ Count(p, last.value)
                     = Cardinality({i \in 1..Len(rawCit) : PairInVocabulary(last.arg, i) = p})
                /\ Count(p, edgeFile[last.arg].rows) = Count(p, last.value)
           /\ (\A i, j \in 1..Len(rawCit) :
                    (PairInVocabulary(last.arg, i) # None
                        /\ PairInVocabulary(last.arg, i) = PairInVocabulary(last.arg, j)) => i = j)
                => NoRepeat(last.value)

\* C8 witness: an extraction yielded one pair twice, from two distinct native
\* edges that translate to the same external pair
C8_Witness ==
    /\ last.op = "extract" /\ last.arg \in ExternalPrefixes /\ last.ok
    /\ last.arg \in last.scannedCit
    /\ Len(last.value) = 2 /\ last.value[1] = last.value[2]
    /\ rawCit[1] # rawCit[2]

\* C13: an extraction without force_process that finds the persisted edge
\* stream reads no raw citation archive, neither obtains nor builds the
\* identifier map, leaves both artifacts as they are and yields the rows of
\* the persisted stream
C13_PersistedStreamIsReplayed ==
    [][\A v \in Vocabularies :
         (/\ edgeFile[v].exists
          /\ last'.op = "extract" /\ last'.arg = v /\ ~last'.force)
            => /\ last'.ok
               /\ last'.scannedCit = {} /\ last'.wroteEdges = {}
               /\ last'.translated = {}
               /\ last'.scannedMeta = {} /\ last'.wroteMap = {}
               /\ edgeFile' = edgeFile
               /\ mapFile' = mapFile
               /\ last'.value = edgeFile[v].rows]_vars

\* C13 witness: an unforced extraction for an external vocabulary replayed a
\* non-empty persisted stream
C13_Witness ==
    /\ last.op = "extract" /\ last.arg \in ExternalPrefixes /\ ~last.force /\ last.ok
    /\ last.scannedCit = {} /\ last.translated = {}
    /\ last.value # <<>> /\ last.value = edgeFile[last.arg].rows
    /\ mapFile[last.arg].exists

\* the edges the citation archive stands for in vocabulary v, in its order
LogicalStream(v) ==
    SelectSeq([i \in 1..Len(rawCit) |-> PairInVocabulary(v, i)], LAMBDA p : p # None)

\* C12 as stated: every invocation without force_process that is consumed to
\* the end yields the sequence a first pass emits from the raw archives,
\* whatever became of the generators before it
C12_ReplayIsTheStreamOfTheArchives ==
    (gen.state = "done" /\ ~gen.force) => gen.out = LogicalStream(gen.v)

\* C12 amended: such an invocation yields, in order, exactly the edges that
\* the invocation which wrote the artifact had emitted when it ended: a
\* prefix of the stream of the archives, and all of it when that invocation
\* was consumed to the end; a replay reads no archive and obtains no map
C12_ReplayIsWhatTheWriterEmitted ==
    (gen.state = "done" /\ ~gen.force)
        => /\ gen.out = gen.emitted[gen.v]
           /\ gen.out = edgeFile[gen.v].rows
           /\ \E k \in 0..Len(LogicalStream(gen.v)) :
                gen.out = SubSeq(LogicalStream(gen.v), 1, k)
           /\ gen.complete[gen.v] => gen.out = LogicalStream(gen.v)
           /\ gen.branch = "read" => ~gen.readCit /\ ~gen.translated

\* C12 witness: a replay, consumed to the end, of an artifact whose writer was
\* dropped after its first edge
C12_Witness ==
    /\ gen.state = "done" /\ ~gen.force /\ gen.branch = "read"
    /\ gen.v \in ExternalPrefixes
    /\ Len(gen.out) = 1
    /\ Len(LogicalStream(gen.v)) = 2
    /\ ~gen.complete[gen.v]

\* the rows a completed scan writes for vocabulary p, behind the header
RowsOfScan(p) ==
    [i \in 1..Len(Yielding(p)) |->
        <<LastIn(Yielding(p)[i], "omid"), LastIn(Yielding(p)[i], p)>>]

IsPrefix(s, t) == Len(s) <= Len(t) /\ s = SubSeq(t, 1, Len(s))

\* C14: a scan or an extraction that the raw archive failed under leaves its
\* artifact on disk with the rows written so far, and the next call for the
\* same vocabulary without force_process succeeds, returns exactly those
\* rows, reads no raw archive and writes nothing
C14_TruncatedArtifactIsTakenAsComplete ==
    [][/\ (last.op = "translate" /\ last.err = "IOError")
            => /\ mapFile[last.arg].exists
               /\ mapFile[last.arg].rows[1] = MapHeader(last.arg)
               /\ IsPrefix(Tail(mapFile[last.arg].rows), RowsOfScan(last.arg))
       /\ (last.op = "extract" /\ last.err = "IOError")
            => /\ edgeFile[last.arg].exists
               /\ IsPrefix(edgeFile[last.arg].rows, LogicalStream(last.arg))
       /\ (/\ last.op = "translate" /\ last.err = "IOError"
           /\ last'.op = "translate" /\ last'.arg = last.arg /\ ~last'.force)
            => /\ last'.ok
               /\ last'.value = DictOfRows(Tail(mapFile[last.arg].rows))
               /\ last'.scannedMeta = {} /\ last'.wroteMap = {}
               /\ mapFile' = mapFile
       /\ (/\ last.op = "extract" /\ last.err = "IOError"
           /\ last'.op = "extract" /\ last'.arg = last.arg /\ ~last'.force)
            => /\ last'.ok
               /\ last'.value = edgeFile[last.arg].rows
               /\ last'.scannedCit = {} /\ last'.wroteEdges = {}
               /\ last'.translated = {} /\ last'.scannedMeta = {}
               /\ edgeFile' = edgeFile /\ mapFile' = mapFile]_vars

\* C14 witness: a call without force_process returned the one edge that an
\* extraction had written before the archive failed under it
C14_Witness ==
    /\ last.op = "extract" /\ last.ok /\ ~last.force
    /\ last.scannedCit = {}
    /\ Len(last.value) = 1
    /\ Len(LogicalStream(last.arg)) = 2

\* C24: a rebuild of the identifier map alone changes neither edge artifact
\* nor index; an extraction without force over an existing artifact yields its
\* rows and leaves it as it is; and an existing artifact changes only under an
\* extraction of its vocabulary with force, which rebuilds the map as well
C24_MapRebuildLeavesEdgesAlone ==
    [][/\ last'.op = "translate" => (edgeFile' = edgeFile /\ indexDisk' = indexDisk)
       /\ \A v \in Vocabularies :
            /\ (last'.op = "extract" /\ last'.arg = v /\ ~last'.force /\ edgeFile[v].exists)
                    => (last'.value = edgeFile[v].rows /\ edgeFile'[v] = edgeFile[v])
            /\ (edgeFile[v].exists /\ edgeFile'[v] # edgeFile[v])
                    => /\ last'.op = "extract" /\ last'.arg = v /\ last'.force
                       /\ v \in ExternalPrefixes => v \in last'.wroteMap]_vars

\* C24 witness: the map was rebuilt after the archive grew, and an extraction
\* without force still lacks an edge that the rebuilt map translates at both ends
C24_Witness ==
    /\ last.op = "extract" /\ last.arg = "pmid" /\ ~last.force /\ last.ok
    /\ indexDisk.pmid.exists
    /\ TranslatedEdges(PersistedMap("pmid")) \ Range(last.value) # {}

\* the rows that split into two native local identifiers, in archive order
Splittable(row) == \E l, r \in RowIds : row \in {Row(l, r), Bare(l, r)}
SplittableRows == SelectSeq(rawCit, Splittable)

\* the stream of vocabulary v over the citation rows cit and the persisted map
StreamOver(v, cit) ==
    IF v = "omid" THEN omid_rows(cit) ELSE external_rows(PersistedMap(v), cit)

\* C22: an extraction that reads the citation archive skips every row that
\* does not split into two native local identifiers: what it yields and
\* persists is the stream of the splittable rows alone, and no edge has an
\* endpoint without a local value
C22_UnsplittableRowIsSkipped ==
    (last.op = "extract" /\ last.arg \in last.scannedCit /\ last.ok)
        => /\ last.value = StreamOver(last.arg, SplittableRows)
           /\ edgeFile[last.arg].rows = StreamOver(last.arg, SplittableRows)
           /\ \A j \in 1..Len(last.value) :
                /\ last.value[j][1] \notin {<<>>, BR}
                /\ last.value[j][2] \notin {<<>>, BR}

\* the edge of vocabulary v between native local identifiers l and r
EdgeBetween(v, l, r) ==
    IF v = "omid" THEN <<BR \o l, BR \o r>>
    ELSE <<DictGet(PersistedMap(v), BR \o l), DictGet(PersistedMap(v), BR \o r)>>

\* C23: a row oci:LEFT-RIGHT or LEFT-RIGHT is read as the pair (LEFT, RIGHT),
\* whatever LEFT starts with: an extraction that reads the archive yields and
\* persists the edge between LEFT and RIGHT for every such row
C23_RowParsesToItsPair ==
    (last.op = "extract" /\ last.arg \in last.scannedCit /\ last.ok)
        => \A i \in 1..Len(rawCit), l \in RowIds, r \in RowIds :
             rawCit[i] \in {Row(l, r), Bare(l, r)}
                => /\ \E j \in 1..Len(last.value) :
                        last.value[j] = EdgeBetween(last.arg, l, r)
                   /\ \E j \in 1..Len(edgeFile[last.arg].rows) :
                        edgeFile[last.arg].rows[j] = EdgeBetween(last.arg, l, r)

---------------------------------------------------------------------------
(* Properties of the graph caches *)

CacheOps == {"cache.out", "cache.in", "cache.warm"}
DbOps == {"db.out", "db.in", "db.warm"}

\* the vocabulary a call is tagged with: pubmed is spelled pmid on disk
TaggedVocabulary(prefix) == IF prefix = "pubmed" THEN "pmid" ELSE prefix

NoWork(call) ==
    /\ call.built = {} /\ call.opened = {} /\ call.extracted = {}
    /\ call.translated = {} /\ call.scannedMeta = {} /\ call.scannedCit = {}

\* C1: within a process, once a vocabulary's cache holds a handle, every later
\* step keeps that handle, and every later access to the vocabulary returns it
\* without building, opening or extracting, whatever else is queried between
C1_ReadyIsTerminal ==
    [][last'.op # "restart"
       => \A v \in Vocabularies :
            cacheMemo[v] # NoHandle
                => /\ cacheMemo'[v] = cacheMemo[v]
                   /\ (last'.op \in CacheOps /\ last'.vocab = v)
                        => /\ last'.ok
                           /\ last'.handle = cacheMemo[v]
                           /\ NoWork(last')
                           /\ indexDisk' = indexDisk]_vars

\* C1 witness: all three vocabularies are Ready and the last access was
\* answered by the handle already held
C1_Witness ==
    /\ \A v \in Vocabularies : cacheMemo[v] # NoHandle
    /\ last.op \in {"cache.out", "cache.in"} /\ last.ok /\ last.hit
    /\ last.handle = cacheMemo[last.vocab]

\* C2: a first resolution of a vocabulary whose index is already on disk opens
\* it: no edge extraction, no translation, no build, nothing written, and the
\* answer is read from the index that was there
C2_ExistingIndexIsOpened ==
    [][\A v \in Vocabularies :
         (/\ cacheMemo[v] = NoHandle /\ indexDisk[v].exists
          /\ last'.op \in CacheOps /\ last'.vocab = v)
            => /\ last'.ok
               /\ last'.extracted = {} /\ last'.translated = {}
               /\ last'.scannedMeta = {} /\ last'.scannedCit = {}
               /\ last'.built = {} /\ last'.opened = {v}
               /\ last'.handle.edges = indexDisk[v].rows
               /\ UNCHANGED <<indexDisk, edgeFile, mapFile, frames>>
               /\ last'.op = "cache.out"
                    => last'.value = returned(last'.rtype, v,
                                              out_edges(indexDisk[v].rows, last'.ident))
               /\ last'.op = "cache.in"
                    => last'.value = returned(last'.rtype, v,
                                              in_edges(indexDisk[v].rows, last'.ident))]_vars

\* C2 witness: a query was answered, with a citation, from an index that a
\* former process had built
C2_Witness ==
    /\ last.op = "cache.out" /\ last.ok /\ ~last.hit
    /\ last.opened = {last.vocab} /\ last.built = {}
    /\ last.value # <<>>

\* C3: a resolution for vocabulary V tests only V's index location, builds only
\* from V's edge stream into V's location, and the query is answered by V's index
C3_VocabularyIsolation ==
    (last.op \in CacheOps \cup DbOps /\ last.ok)
        => /\ last.tested \subseteq {TaggedVocabulary(last.arg)}
           /\ last.extracted \subseteq {TaggedVocabulary(last.arg)}
           /\ last.built \subseteq {TaggedVocabulary(last.arg)}
           /\ last.opened \subseteq {TaggedVocabulary(last.arg)}
           /\ last.handle.path = TaggedVocabulary(last.arg)

\* C4: a query whose prefix is outside the supported set fails with an error
\* and changes no cache and no file
C4_UnsupportedVocabularyFails ==
    [][(last'.op \in {"cache.out", "cache.in"} /\ last'.arg \notin CITATION_PREFIXES)
         => /\ ~last'.ok
            /\ last'.err \in {"ValueError", "NotImplementedError"}
            /\ NoWork(last')
            /\ UNCHANGED <<cacheMemo, runs, indexDisk, edgeFile, mapFile, frames>>]_vars

\* C4 witness: an unsupported prefix was refused while one vocabulary was
\* Ready and another still Unbuilt
C4_Witness ==
    /\ last.op = "cache.out" /\ last.arg = "isbn" /\ last.rtype = "reference"
    /\ ~last.ok /\ last.err = "ValueError"
    /\ \E v \in Vocabularies : cacheMemo[v] # NoHandle
    /\ \E v \in Vocabularies : ~indexDisk[v].exists

\* the edge stream of vocabulary v as the extractor yields it on this disk
StreamOf(v) == EdgeStream(v, FALSE).edges

\* the identifiers that occur in some edge of a stream
NodesOf(stream) == {e[1] : e \in Range(stream)} \cup {e[2] : e \in Range(stream)}

\* C5: after a query on vocabulary V, for every edge (a, b) of V's edge stream
\* the outgoing query on a contains b and the incoming query on b contains a;
\* and every target the query returned has the queried node among its sources
C5_AdjacencyRoundTrip ==
    (last.op \in {"cache.out", "cache.in"} /\ last.ok)
        => /\ \A e \in Range(StreamOf(TaggedVocabulary(last.arg))) :
                /\ cache_query("out", last.arg, e[1], "str").call.ok
                /\ e[2] \in Range(cache_query("out", last.arg, e[1], "str").call.value)
                /\ cache_query("in", last.arg, e[2], "str").call.ok
                /\ e[1] \in Range(cache_query("in", last.arg, e[2], "str").call.value)
           /\ (last.op = "cache.out" /\ last.rtype = "str")
                => \A t \in Range(last.value) :
                     last.ident \in Range(cache_query("in", last.arg, t, "str").call.value)

\* C5 witness: an outgoing query on a PubMed identifier returned a citation
C5_Witness ==
    /\ last.op = "cache.out" /\ last.arg = "pubmed" /\ last.ok
    /\ last.rtype = "str" /\ Len(last.value) >= 1

\* every local identifier of the model, and one that no archive mentions
AllIds ==
    {BR \o <<"1">>, BR \o <<"2">>, BR \o <<"3">>, <<"7">>, <<"8">>, <<"x">>, <<"y">>, <<"9">>}

\* a query that did not raise and returned the empty list
AnsweredEmpty(q) == q.call.ok /\ q.call.value = <<>>

\* every identifier outside nodes is answered with the empty list, both ways
AbsentAnsweredEmpty(prefix, nodes) ==
    \A identifier \in AllIds \ nodes, dir \in Directions, rtype \in {"reference", "str"} :
        AnsweredEmpty(cache_query(dir, prefix, identifier, rtype))

\* C6: for a supported prefix and an identifier in no edge of that
\* vocabulary's stream, both queries return an empty list and do not raise
C6_AbsentIsEmpty ==
    \A prefix \in CITATION_PREFIXES :
        AbsentAnsweredEmpty(prefix, NodesOf(StreamOf(TaggedVocabulary(prefix))))

\* C6 witness: a query on an identifier that is in no edge of a non-empty
\* graph returned the empty list
C6_Witness ==
    /\ last.op \in {"cache.out", "cache.in"} /\ last.ok /\ last.value = <<>>
    /\ StreamOf(TaggedVocabulary(last.arg)) # <<>>
    /\ last.ident \notin NodesOf(StreamOf(TaggedVocabulary(last.arg)))

\* the prefix a returned Reference carries
PrefixNamed(str) == CHOOSE p \in DOMAIN StrOf : StrOf[p] = str

\* C18: every reference an outgoing query returns for a supported prefix is
\* accepted by the incoming query, whose answer contains the queried node
C18_ReturnedReferenceRoundTrip ==
    (/\ last.op = "cache.out" /\ last.ok /\ last.rtype = "reference"
     /\ last.arg \in CITATION_PREFIXES)
        => \A r \in Range(last.value) :
             /\ cache_query("in", PrefixNamed(r[1]), r[2], "reference").call.ok
             /\ <<StrOf[last.arg], last.ident>>
                  \in Range(cache_query("in", PrefixNamed(r[1]), r[2], "reference").call.value)

\* C15: when two threads make the first access to one vocabulary at the
\* same time and no index is on disk, at most one of them builds it and both
\* come back with the same handle
C15_FirstAccessIsGuarded ==
    \A t, u \in Threads, v \in Vocabularies :
        (t # u /\ threads[t].v = v /\ threads[u].v = v)
            => /\ ~(threads[t].built /\ threads[u].built)
               /\ (threads[t].pc = "returned" /\ threads[u].pc = "returned")
                    => threads[t].handle = threads[u].handle

\* C25: a vocabulary becomes Ready only in an access to it that returned
\* normally after building or opening its index; an access that raises leaves
\* no handle behind; and every access that finds no handle tests the on-disk
\* location and opens the index that is there or builds the one that is not
C25_ReadyOnlyThroughNormalReturn ==
    [][\A v \in Vocabularies :
         /\ (cacheMemo[v] = NoHandle /\ cacheMemo'[v] # NoHandle)
                => /\ last'.op \in CacheOps /\ last'.vocab = v /\ last'.ok
                   /\ last'.built = {v} \/ last'.opened = {v}
                   /\ last'.handle = cacheMemo'[v]
                   /\ indexDisk'[v].exists
                   /\ cacheMemo'[v].edges = indexDisk'[v].rows
         /\ (last'.op \in CacheOps /\ last'.vocab = v /\ ~last'.ok)
                => cacheMemo'[v] = NoHandle
         /\ (cacheMemo[v] = NoHandle /\ last'.op \in CacheOps /\ last'.vocab = v)
                => /\ last'.tested = {v}
                   /\ indexDisk[v].exists => (last'.ok /\ last'.opened = {v} /\ last'.built = {})
                   /\ ~indexDisk[v].exists
                        => (last'.opened = {} /\ (last'.ok => last'.built = {v}))]_vars

\* C25 witness: a build whose citation archive failed left a truncated edge
\* artifact and no handle, and a later access of the same process built the
\* index and made the vocabulary Ready
C25_Witness ==
    /\ last.op \in CacheOps /\ last.vocab = "omid" /\ last.ok /\ last.built = {"omid"}
    /\ cacheMemo.omid # NoHandle
    /\ Len(edgeFile.omid.rows) < Len(rawCit)

---------------------------------------------------------------------------
(* Properties of the object models *)

\* the flag a self-citation column stands for, as Python prints it
FlagOf(s) == IF s = "yes" THEN "True" ELSE "False"

\* C27: process_citation keeps the self-citation flags: "yes" gives True and
\* "no" gives False (not None) in journal_self_citation and
\* author_self_citation, and any other value raises ValueError
C27_SelfCitationFlagsKept ==
    last.op = "process_citation"
        => IF last.ident.journal_sc \in {"yes", "no"} /\ last.ident.author_sc \in {"yes", "no"}
           THEN /\ last.ok
                /\ last.value.journal_self_citation = FlagOf(last.ident.journal_sc)
                /\ last.value.author_self_citation = FlagOf(last.ident.author_sc)
           ELSE ~last.ok /\ last.err = "ValueError"

\* the positions of the references with prefix omid
OmidPositions(references) == {i \in 1..Len(references) : references[i][1] = "omid"}

\* what the claim says a finished evaluation of Work.omid has done
OmidOutcomeAsDocumented ==
    /\ frames.pc = "idle" /\ last.op = "work.omid"
    /\ IF OmidPositions(last.ident) # {}
       THEN /\ last.ok
            /\ \E i \in OmidPositions(last.ident) :
                    /\ \A j \in OmidPositions(last.ident) : i <= j
                    /\ last.value = last.ident[i][2]
       ELSE ~last.ok /\ last.err = "ValueError"

\* C28: every evaluation of Work.omid ends: it returns the identifier of the
\* first reference with prefix omid when there is one, and raises ValueError
\* when there is none
C28_OmidTerminates == (frames.pc # "idle") ~> OmidOutcomeAsDocumented

====
